---------------------------- MODULE Spec2Model ----------------------------
(***************************************************************************)
(* Job-status reconciliation of the SLURM executor plugin                  *)
(* (snakemake_executor_plugin_slurm/__init__.py, Executor).                *)
(*                                                                         *)
(* One reconciliation cycle is one call of Executor.check_active_jobs:     *)
(*   CheckActiveJobs  - entry, fast path for an empty list, cycle locals   *)
(*   QueryAttempt     - one iteration of `for i in range(status_attempts)` *)
(*   Classify         - the code after the loop: the missing-jobs warning, *)
(*                      the classification of every job, the new wait      *)
(*   CollectYielded   - the caller takes the yielded jobs as still active  *)
(* Submit is run_job's report_job_submission of a new SubmittedJobInfo.    *)
(*                                                                         *)
(* Partition selection (partitions.py): SpecPart draws a job and a list of *)
(* partitions and GetBestPartition applies get_best_partition to them.     *)
(* Time limits (utils.py): SpecTime draws a time string and                *)
(* ParseTimeToMinutes applies parse_time_to_minutes to it.                 *)
(***************************************************************************)
EXTENDS Integers, Sequences, FiniteSets, TLC

\* ------------------------------------------------------------------ bounds
\* Jobs submitted over the life of the executor; external ids are 1..MaxJobs.
MaxJobs == 2
\* Largest configured status_attempts explored by Spec.
MaxAttempts == 2
\* Jobs submitted under SpecGap.
GapJobs == 1

\* ------------------------------------------------------- program constants
max_sleep_time == 180
WaitIncrement == 10
DefaultStatusAttempts == 5

\* Mutant: PREEMPTED counts as a failure once the warning has been logged.
fail_statiWithPreempted ==
    {"BOOT_FAIL", "CANCELLED", "DEADLINE", "FAILED",
     "NODE_FAIL", "OUT_OF_MEMORY", "TIMEOUT", "ERROR", "PREEMPTED"}

fail_stati ==
    {"BOOT_FAIL", "CANCELLED", "DEADLINE", "FAILED",
     "NODE_FAIL", "OUT_OF_MEMORY", "TIMEOUT", "ERROR"}

\* Status tokens the cluster puts into a snapshot: SLURM's job state codes
\* that check_active_jobs tests for, and two it has no branch for.
StatusTokens ==
    {"COMPLETED", "UNKNOWN", "PREEMPTED", "RUNNING", "PENDING",
     "BOOT_FAIL", "CANCELLED", "DEADLINE", "FAILED",
     "NODE_FAIL", "OUT_OF_MEMORY", "TIMEOUT", "ERROR"}

JobIds == 1..MaxJobs

\* Configured init_seconds_before_status_checks (any positive integer; the
\* values straddle max_sleep_time) and the wait the executor starts with.
InitialIntervals == {160, 200}
StartWaits == {175}

VARIABLES
    initial_interval,      \* executor_settings.init_seconds_before_status_checks
    status_attempts,       \* executor_settings.status_attempts
    next_seconds_between_status_checks,
    preemption_warning,    \* self._preemption_warning
    n_submitted,           \* jobs submitted so far (external ids 1..n_submitted)
    active_jobs,           \* the executor's list of active jobs, between cycles
    pc,                    \* "idle" | "query" | "classify" | "done"
    cycle_jobs,            \* the active_jobs argument of the running cycle
    attempt,               \* i of the for loop: attempts made so far
    status_of_jobs,        \* result of the last job_stati call
    last_snapshot,         \* the last snapshot job_stati returned in this cycle
    active_jobs_seen_by_sacct,
    missing_sacct_status,
    prev_wait,             \* next_seconds_between_status_checks at cycle entry
    yielded,               \* jobs yielded by the running cycle
    success,               \* jobs passed to report_job_success in this cycle
    errors,                \* job -> msg passed to report_job_error in this cycle
    missing_warning,       \* ids listed by the missing-jobs warning of this cycle
    warned,                \* preemption warnings logged in this cycle
    aborted,               \* classification left by an exception (KeyError)
    n_success,             \* job -> report_job_success calls over the lifetime
    n_error,               \* job -> report_job_error calls over the lifetime
    n_preemption_warnings, \* preemption warnings logged over the lifetime
    plan,                  \* SpecGap: what job_stati returns to the 1st, 2nd, ... call
    job,                   \* SpecPart: the job handed to get_best_partition
    candidate_partitions,  \* SpecPart: the list of Partition objects
    selection,             \* SpecPart: what get_best_partition did
    time_value,            \* SpecTime: the argument of parse_time_to_minutes
    time_number,           \* SpecTime: the argument when it is an int or a float
    parsed,                \* SpecTime: what parse_time_to_minutes did
    cancel_active_jobs,    \* SpecCancel: the active_jobs argument of cancel_jobs
    submitted_job_clusters,\* SpecCancel: clusters jobs were submitted to
    scancel,               \* SpecCancel: the scancel commands run so far
    cancelled,             \* SpecCancel: what cancel_jobs did
    configured,            \* SpecChoose: executor_settings.status_command
    sacct_available,       \* SpecChoose: is_query_tool_available("sacct")
    min_job_age,           \* SpecChoose: what get_min_job_age() returns
    status_command_name,   \* the status command a cycle decided on
    command_res,           \* SpecParse: the rows of the output of the status command
    queried                \* SpecParse: what the parse of command_res gave

vars ==
    <<initial_interval, status_attempts, next_seconds_between_status_checks,
      preemption_warning, n_submitted, active_jobs, pc, cycle_jobs, attempt,
      status_of_jobs, last_snapshot, active_jobs_seen_by_sacct,
      missing_sacct_status, prev_wait, yielded, success, errors,
      missing_warning, warned, aborted,
      n_success, n_error, n_preemption_warnings, plan,
      job, candidate_partitions, selection, time_value, time_number, parsed,
      cancel_active_jobs, submitted_job_clusters, scancel, cancelled,
      configured, sacct_available, min_job_age, status_command_name, command_res, queried>>

settings == <<initial_interval, status_attempts>>
lifetime == <<n_success, n_error, n_preemption_warnings>>
cycle_out == <<yielded, success, errors, missing_warning, warned, aborted>>
cycle_loc ==
    <<attempt, status_of_jobs, last_snapshot, active_jobs_seen_by_sacct,
      missing_sacct_status>>
executor_vars ==
    <<settings, lifetime, cycle_out, cycle_loc, next_seconds_between_status_checks,
      preemption_warning, n_submitted, active_jobs, pc, cycle_jobs, prev_wait,
      plan>>
part_vars == <<job, candidate_partitions, selection>>
time_vars == <<time_value, time_number, parsed>>
cancel_vars == <<cancel_active_jobs, submitted_job_clusters, scancel, cancelled>>
query_vars == <<configured, sacct_available, min_job_age, status_command_name, command_res, queried>>

\* No partition selection and no time parsing under way.
NotSelecting ==
    /\ job = <<>>
    /\ candidate_partitions = <<>>
    /\ selection = [pc |-> "idle"]
NotParsing ==
    /\ time_value = <<>>
    /\ time_number = [given |-> FALSE]
    /\ parsed = [pc |-> "idle"]
NotCancelling ==
    /\ cancel_active_jobs = <<>>
    /\ submitted_job_clusters = {}
    /\ scancel = <<>>
    /\ cancelled = [pc |-> "idle"]
NotQuerying ==
    /\ configured = ""
    /\ sacct_available = FALSE
    /\ min_job_age = [given |-> FALSE]
    /\ status_command_name = ""
    /\ command_res = <<>>
    /\ queried = [pc |-> "idle"]

Min(a, b) == IF a <= b THEN a ELSE b

\* --------------------------------------------------------------- job_stati
\* job_stati returns (res, query_duration): both None when the command fails,
\* else res maps every job id of the output to its status token.
NoStatus == [ok |-> FALSE, res |-> <<>>]
Snapshot(m) == [ok |-> TRUE, res |-> m]
Snapshots(ids, tokens) == UNION {[S -> tokens] : S \in SUBSET ids}
job_stati(ids, tokens) == {NoStatus} \cup {Snapshot(m) : m \in Snapshots(ids, tokens)}

\* ------------------------------------------------------- check_active_jobs
\* The jobs of a list in the order the for loop visits them.
RECURSIVE JobList(_)
JobList(S) ==
    IF S = {} THEN <<>>
    ELSE LET j == CHOOSE x \in S : \A y \in S : x <= y
         IN  <<j>> \o JobList(S \ {j})

\* Locals of the classification loop (lines 733-790), before the first job.
ClassifyStart(seen, flag) ==
    [yielded |-> {}, success |-> {}, errors |-> <<>>, seen |-> seen,
     any_finished |-> FALSE, preemption_warning |-> flag, warnings |-> 0,
     aborted |-> FALSE]

\* active_jobs_seen_by_sacct.remove(j.external_jobid): KeyError when absent.
Remove(st, j) ==
    IF j \in st.seen
    THEN [st EXCEPT !.seen = @ \ {j}]
    ELSE [st EXCEPT !.aborted = TRUE]

\* yield j
Yield(st, j) == [st EXCEPT !.yielded = @ \cup {j}]

\* Mutant: the success branch reports the job and yields it as well.
SuccessBranchAlsoYields(st, j) ==
    Yield(Remove([st EXCEPT !.success = @ \cup {j}, !.any_finished = TRUE], j), j)

\* status == "COMPLETED" and status == "UNKNOWN": report_job_success(j),
\* any_finished = True, then the remove.
SuccessBranch(st, j) ==
    Remove([st EXCEPT !.success = @ \cup {j}, !.any_finished = TRUE], j)

\* Mutant: the warning is logged but the flag is never set.
PreemptedBranchKeepsFlag(st, j) ==
    Yield([st EXCEPT !.warnings = @ + 1], j)

\* status == "PREEMPTED" and not self._preemption_warning
PreemptedBranch(st, j) ==
    Yield([st EXCEPT !.preemption_warning = TRUE, !.warnings = @ + 1], j)

\* Mutant: the message names the job but not its status.
FailMessageWithoutStatus(j, status) ==
    <<"SLURM-job '", ToString(j), "' failed.">>

\* msg of the fail branch, as the pieces of the f-string.
FailMessage(j, status) ==
    <<"SLURM-job '", ToString(j), "' failed, SLURM status is: ", "'", status, "'. ">>

\* status in fail_stati: report_job_error(j, msg=msg, ...), then the remove.
FailBranch(st, j, status) ==
    Remove([st EXCEPT !.errors = (j :> FailMessage(j, status)) @@ @], j)

\* Mutant: UNKNOWN has no branch of its own and counts as still running.
ClassifyJobUnknownRunning(st, j, res) ==
    IF st.aborted THEN st
    ELSE IF j \notin DOMAIN res THEN Yield(st, j)
    ELSE LET status == res[j] IN
         IF status = "COMPLETED" THEN SuccessBranch(st, j)
         ELSE IF status = "PREEMPTED" /\ ~st.preemption_warning
              THEN PreemptedBranch(st, j)
         ELSE IF status \in fail_stati THEN FailBranch(st, j, status)
         ELSE Yield(st, j)

\* Mutant: a status without a branch of its own is reported as a failure.
ClassifyJobOtherFails(st, j, res) ==
    IF st.aborted THEN st
    ELSE IF j \notin DOMAIN res THEN Yield(st, j)
    ELSE LET status == res[j] IN
         IF status = "COMPLETED" THEN SuccessBranch(st, j)
         ELSE IF status = "PREEMPTED" /\ ~st.preemption_warning
              THEN PreemptedBranch(st, j)
         ELSE IF status = "UNKNOWN" THEN SuccessBranch(st, j)
         ELSE IF status \in fail_stati THEN FailBranch(st, j, status)
         ELSE IF status = "PREEMPTED" THEN Yield(st, j)
         ELSE FailBranch(st, j, status)

\* One iteration of `for j in active_jobs` over snapshot res.
ClassifyJob(st, j, res) ==
    IF st.aborted THEN st
    ELSE IF j \notin DOMAIN res THEN Yield(st, j)
    ELSE LET status == res[j] IN
         IF status = "COMPLETED" THEN SuccessBranch(st, j)
         ELSE IF status = "PREEMPTED" /\ ~st.preemption_warning
              THEN PreemptedBranch(st, j)
         ELSE IF status = "UNKNOWN" THEN SuccessBranch(st, j)
         ELSE IF status \in fail_stati THEN FailBranch(st, j, status)
         ELSE Yield(st, j)

RECURSIVE ClassifyAll(_, _, _)
ClassifyAll(st, jobs, res) ==
    IF jobs = <<>> THEN st
    ELSE ClassifyAll(ClassifyJob(st, Head(jobs), res), Tail(jobs), res)

\* Lines 792-798: the wait after a classification.
NextWait(any_finished, wait, initial) ==
    IF ~any_finished
    THEN Min(wait + WaitIncrement, max_sleep_time)
    ELSE initial

EmptyCycleOut ==
    /\ yielded' = {}
    /\ success' = {}
    /\ errors' = <<>>
    /\ missing_warning' = {}
    /\ warned' = 0
    /\ aborted' = FALSE

EmptyCycleLoc ==
    /\ attempt' = 0
    /\ status_of_jobs' = NoStatus
    /\ last_snapshot' = NoStatus
    /\ active_jobs_seen_by_sacct' = {}
    /\ missing_sacct_status' = {}

\* Mutant: the fast path returns without touching the wait.
FastPathKeepsWait ==
    /\ next_seconds_between_status_checks' = next_seconds_between_status_checks
    /\ pc' = "done"

\* Lines 645-654: the fast path of an empty list.
FastPath ==
    /\ next_seconds_between_status_checks' = initial_interval
    /\ pc' = "done"

\* Lines 656-664: a cycle over a non-empty list starts its attempts.
StartAttempts ==
    /\ next_seconds_between_status_checks' = next_seconds_between_status_checks
    /\ pc' = "query"

\* Entry of check_active_jobs(active_jobs): the caller hands over its list.
Entry ==
    /\ pc = "idle"
    /\ cycle_jobs' = active_jobs
    /\ active_jobs' = {}
    /\ prev_wait' = next_seconds_between_status_checks
    /\ IF active_jobs = {} THEN FastPath ELSE StartAttempts
    /\ EmptyCycleOut
    /\ EmptyCycleLoc
    /\ UNCHANGED <<settings, lifetime, preemption_warning, n_submitted>>
    /\ UNCHANGED <<part_vars, time_vars, cancel_vars, query_vars>>

CheckActiveJobs == Entry /\ plan' = <<>>

\* One iteration more than status_attempts.
AfterAttemptOneMore(i) == IF i <= status_attempts THEN "query" ELSE "classify"
\* Where the for loop goes after an attempt that did not break.
AfterAttempt(i) == IF i < status_attempts THEN "query" ELSE "classify"

\* Lines 694-696: the attempt failed outright.
AttemptFailed ==
    /\ pc' = AfterAttempt(attempt + 1)
    /\ UNCHANGED <<active_jobs_seen_by_sacct, missing_sacct_status>>

\* Mutant: the ever-seen set is not extended by the jobs of this snapshot.
AttemptReturnedForgetsSeen(res) ==
    LET active_jobs_ids == cycle_jobs
        current == DOMAIN res \cap active_jobs_ids
        seen == active_jobs_seen_by_sacct
        missing == seen \ current
    IN  /\ active_jobs_seen_by_sacct' = seen
        /\ missing_sacct_status' = missing
        /\ pc' = IF missing = {} THEN "classify" ELSE AfterAttempt(attempt + 1)

\* Lines 697-720: the attempt returned a snapshot.
AttemptReturned(res) ==
    LET active_jobs_ids == cycle_jobs
        current == DOMAIN res \cap active_jobs_ids
        seen == active_jobs_seen_by_sacct \cup current
        missing == seen \ current
    IN  /\ active_jobs_seen_by_sacct' = seen
        /\ missing_sacct_status' = missing
        /\ pc' = IF missing = {} THEN "classify" ELSE AfterAttempt(attempt + 1)

\* One iteration of `for i in range(status_attempts)` with job_stati's result r.
Attempt(r) ==
    /\ attempt' = attempt + 1
    /\ status_of_jobs' = r
    /\ last_snapshot' = IF r.ok THEN r ELSE last_snapshot
    /\ IF r.ok THEN AttemptReturned(r.res) ELSE AttemptFailed
    /\ UNCHANGED <<settings, lifetime, cycle_out, preemption_warning, n_submitted,
                   active_jobs, cycle_jobs, prev_wait,
                   next_seconds_between_status_checks>>
    /\ UNCHANGED <<part_vars, time_vars, cancel_vars, query_vars>>

QueryAttempt ==
    /\ pc = "query"
    /\ \E r \in job_stati(1..n_submitted, StatusTokens) : Attempt(r)
    /\ UNCHANGED plan

\* Lines 722-731: the jobs the missing-jobs warning lists (none: no warning).
MissingWarning == missing_sacct_status

\* Lines 733-798 for a snapshot; st is the outcome of the for loop.
Classified(st) ==
    /\ yielded' = st.yielded
    /\ success' = st.success
    /\ errors' = st.errors
    /\ aborted' = st.aborted
    /\ warned' = st.warnings
    /\ active_jobs_seen_by_sacct' = st.seen
    /\ preemption_warning' = st.preemption_warning
    /\ n_preemption_warnings' = n_preemption_warnings + st.warnings
    /\ n_success' = [j \in JobIds |-> n_success[j] + IF j \in st.success THEN 1 ELSE 0]
    /\ n_error' = [j \in JobIds |-> n_error[j] + IF j \in DOMAIN st.errors THEN 1 ELSE 0]
    /\ next_seconds_between_status_checks' =
          IF st.aborted THEN next_seconds_between_status_checks
          ELSE NextWait(st.any_finished, next_seconds_between_status_checks,
                        initial_interval)

\* `if status_of_jobs is not None` is false: nothing more happens.
NotClassified ==
    /\ UNCHANGED <<yielded, success, errors, aborted, warned,
                   active_jobs_seen_by_sacct,
                   preemption_warning, lifetime,
                   next_seconds_between_status_checks>>

\* The code after the for loop, lines 722-798.
Classify ==
    /\ pc = "classify"
    /\ missing_warning' = MissingWarning
    /\ IF status_of_jobs.ok
       THEN Classified(ClassifyAll(ClassifyStart(active_jobs_seen_by_sacct,
                                                 preemption_warning),
                                   JobList(cycle_jobs), status_of_jobs.res))
       ELSE NotClassified
    /\ pc' = "done"
    /\ UNCHANGED <<settings, n_submitted, active_jobs, cycle_jobs, attempt,
                   status_of_jobs, last_snapshot, missing_sacct_status,
                   prev_wait, plan>>
    /\ UNCHANGED <<part_vars, time_vars, cancel_vars, query_vars>>

\* The caller of check_active_jobs keeps the yielded jobs as its active jobs.
CollectYielded ==
    /\ pc = "done"
    /\ ~aborted
    /\ active_jobs' = active_jobs \cup yielded
    /\ cycle_jobs' = {}
    /\ prev_wait' = next_seconds_between_status_checks
    /\ pc' = "idle"
    /\ plan' = <<>>
    /\ EmptyCycleOut
    /\ EmptyCycleLoc
    /\ UNCHANGED <<settings, lifetime, preemption_warning, n_submitted,
                   next_seconds_between_status_checks>>
    /\ UNCHANGED <<part_vars, time_vars, cancel_vars, query_vars>>

\* run_job, lines 599-605: report_job_submission of a job with a new SLURM id.
Submit ==
    /\ n_submitted < MaxJobs
    /\ n_submitted' = n_submitted + 1
    /\ active_jobs' = active_jobs \cup {n_submitted + 1}
    /\ UNCHANGED <<settings, lifetime, cycle_out, cycle_loc, preemption_warning,
                   pc, cycle_jobs, prev_wait, next_seconds_between_status_checks,
                   plan>>
    /\ UNCHANGED <<part_vars, time_vars, cancel_vars, query_vars>>

\* Executor.__post_init__ (lines 330-338) and the validated settings.
Started ==
    /\ initial_interval \in InitialIntervals
    /\ next_seconds_between_status_checks \in StartWaits
    /\ prev_wait = next_seconds_between_status_checks
    /\ preemption_warning = FALSE
    /\ n_submitted = 0
    /\ active_jobs = {}
    /\ pc = "idle"
    /\ cycle_jobs = {}
    /\ attempt = 0
    /\ status_of_jobs = NoStatus
    /\ last_snapshot = NoStatus
    /\ active_jobs_seen_by_sacct = {}
    /\ missing_sacct_status = {}
    /\ yielded = {}
    /\ success = {}
    /\ errors = <<>>
    /\ missing_warning = {}
    /\ warned = 0
    /\ aborted = FALSE
    /\ n_success = [j \in JobIds |-> 0]
    /\ n_error = [j \in JobIds |-> 0]
    /\ n_preemption_warnings = 0
    /\ plan = <<>>

Init ==
    /\ status_attempts \in 1..MaxAttempts
    /\ Started
    /\ NotSelecting
    /\ NotParsing
    /\ NotCancelling
    /\ NotQuerying

Next ==
    \/ Submit
    \/ CheckActiveJobs
    \/ QueryAttempt
    \/ Classify
    \/ CollectYielded

Spec == Init /\ [][Next]_vars

\* The same executor with the steps of a running cycle taken whenever they
\* can be: the for loop and the code after it run on by themselves, and a
\* status command that was started ends (job_stati waits for it).
\* The snapshots hold the three kinds of status the loop after the attempts
\* tells apart: finished, failed and still active.
LiveTokens == {"COMPLETED", "FAILED", "RUNNING"}

QueryLive ==
    /\ pc = "query"
    /\ \E r \in job_stati(1..n_submitted, LiveTokens) : Attempt(r)
    /\ UNCHANGED plan

NextLive ==
    \/ Submit
    \/ CheckActiveJobs
    \/ QueryLive
    \/ Classify
    \/ CollectYielded

SpecLive == Init /\ [][NextLive]_vars /\ WF_vars(QueryLive) /\ WF_vars(Classify)

\* ----------------------------------------------------------------- SpecGap
\* The same cycle with the default status_attempts, run against an accounting
\* backend whose answers to the successive queries of a cycle are fixed when
\* the cycle starts (a job_stati mocked with a list of results).
GapTokens == {"COMPLETED", "FAILED", "RUNNING"}

Plans == [1..status_attempts -> job_stati(1..n_submitted, GapTokens)]

CheckActiveJobsPlanned ==
    /\ Entry
    /\ plan' \in IF active_jobs = {} THEN {<<>>} ELSE Plans

QueryPlanned ==
    /\ pc = "query"
    /\ Attempt(plan[attempt + 1])
    /\ UNCHANGED plan

SubmitGap == n_submitted < GapJobs /\ Submit

InitGap ==
    /\ status_attempts = DefaultStatusAttempts
    /\ Started
    /\ NotSelecting
    /\ NotParsing
    /\ NotCancelling
    /\ NotQuerying

NextGap ==
    \/ SubmitGap
    \/ CheckActiveJobsPlanned
    \/ QueryPlanned
    \/ Classify
    \/ CollectYielded

SpecGap == InitGap /\ [][NextGap]_vars

\* ---------------------------------------------------------------- SpecPart
\* partitions.py.  A job is a record with job.resources (the keys the rule
\* sets) and, unless job.threads is None, job.threads.  The limits of a
\* partition are the keys its entry of the partition file sets; the
\* dataclass defaults of PartitionLimits stand for the others.
inf == 999999
isinf(x) == x = inf

\* d.get(key, default)
Get(d, key, default) == IF key \in DOMAIN d THEN d[key] ELSE default

\* PartitionLimits: a numeric limit, max_gpu, supports_mpi.
Limit(limits, key) == Get(limits, key, inf)
max_gpu(limits) == Get(limits, "max_gpu", 0)
supports_mpi(limits) == Get(limits, "supports_mpi", TRUE)

\* PartitionLimits.__post_init__: a numeric max_runtime goes through
\* parse_time_to_minutes, that is round_half_up(n) = floor(n + 0.5).
max_runtime(limits) ==
    LET n == Limit(limits, "max_runtime")
    IN  IF isinf(n) THEN n ELSE (2 * n + 1) \div 2

\* Scores are sums of ratios request / limit, kept as reduced fractions
\* <<numerator, denominator>>.
RECURSIVE GCD(_, _)
GCD(a, b) == IF b = 0 THEN a ELSE GCD(b, a % b)
Ratio(n, d) == LET g == GCD(n, d) IN <<n \div g, d \div g>>
Plus(r, q) == Ratio(r[1] * q[2] + q[1] * r[2], r[2] * q[2])
Less(r, q) == r[1] * q[2] < q[1] * r[2]
Zero == <<0, 1>>

\* int(s) for the numerals of a gres string; any other text is a ValueError.
Numerals == [n \in {"0", "1", "2", "3"} |->
                CASE n = "0" -> 0 [] n = "1" -> 1 [] n = "2" -> 2 [] n = "3" -> 3]
IsNumeral(s) == s \in DOMAIN Numerals

\* A gres string is held as its comma-separated parts, each part as its
\* colon-separated fields.  `"gpu" in gres` looks for the text anywhere,
\* part.strip().startswith("gpu") at the start of a part.
ContainsGpu(field) == field \in {"gpu", "egpu"}
StartsWithGpu(part) == Len(part) > 0 /\ part[1] = "gpu"
GpuInGres(gres) ==
    \E i \in DOMAIN gres : \E k \in DOMAIN gres[i] : ContainsGpu(gres[i][k])
RECURSIVE gpu_parts(_)
gpu_parts(gres) ==
    IF gres = <<>> THEN <<>>
    ELSE (IF StartsWithGpu(Head(gres)) THEN <<Head(gres)>> ELSE <<>>)
         \o gpu_parts(Tail(gres))

\* Lines 86-121.  gpu_model "" stands for None: its one use (line 355) tests
\* its truth value.
GpuRequirement(out, count, model) ==
    [out |-> out, gpu_count |-> count, gpu_model |-> model]
parse_gpu_spec(gpu_spec) ==
    IF Len(gpu_spec) = 2
    THEN IF IsNumeral(gpu_spec[2])
         THEN GpuRequirement("ok", Numerals[gpu_spec[2]], "")
         ELSE GpuRequirement("ValueError", 0, "")
    ELSE IF Len(gpu_spec) = 3
    THEN IF IsNumeral(gpu_spec[3])
         THEN GpuRequirement("ok", Numerals[gpu_spec[3]], gpu_spec[2])
         ELSE GpuRequirement("ValueError", 0, "")
    ELSE GpuRequirement("ok", 0, "")
parse_gpu_requirements(j) ==
    LET gpu_required == Get(j.resources, "gpu", 0)
        gres == Get(j.resources, "gres", <<>>)
    IN  IF GpuInGres(gres) /\ gpu_required # 0
        THEN GpuRequirement("WorkflowError", 0, "")
        ELSE IF gpu_required # 0
        THEN GpuRequirement("ok", gpu_required, Get(j.resources, "gpu_model", ""))
        ELSE IF GpuInGres(gres) /\ gpu_parts(gres) # <<>>
        THEN parse_gpu_spec(gpu_parts(gres)[1])
        ELSE GpuRequirement("ok", 0, "")

\* Lines 124-144.
get_effective_threads(j) ==
    LET given == "threads" \in DOMAIN j
        from_resources ==
            /\ ~given \/ j.threads = 1
            /\ "threads" \in DOMAIN j.resources
            /\ j.resources.threads > 1
    IN  IF from_resources THEN j.resources.threads
        ELSE IF ~given THEN 1
        ELSE IF j.threads < 1 THEN 1
        ELSE j.threads

\* Lines 147-201.
CpuRequirement(out, count, type) ==
    [out |-> out, cpu_count |-> count, cpu_type |-> type]
get_job_cpu_requirement(j) ==
    LET gpu_required == Get(j.resources, "gpu", 0)
        gres == Get(j.resources, "gres", <<>>)
        has_gpu == gpu_required # 0 \/ GpuInGres(gres)
    IN  IF "cpus_per_task" \in DOMAIN j.resources
        THEN LET cpus_per_task == j.resources.cpus_per_task IN
             IF cpus_per_task < 0
             THEN CpuRequirement("WorkflowError", 0, "none")
             ELSE CpuRequirement("ok", IF cpus_per_task < 1 THEN 1 ELSE cpus_per_task,
                                 "task")
        ELSE IF has_gpu /\ "cpus_per_gpu" \in DOMAIN j.resources
        THEN LET cpus_per_gpu == j.resources.cpus_per_gpu IN
             IF cpus_per_gpu <= 0
             THEN CpuRequirement("ok", 0, "none")
             ELSE CpuRequirement("ok", cpus_per_gpu, "gpu")
        ELSE CpuRequirement("ok", get_effective_threads(j), "task")

\* score_job_fit, lines 250-376.  A Fit is where the function stands: out is
\* "score" while it runs on, "None" after `return None`, or the exception
\* that left it.
\* terms lists the divisions made so far, each as <<request, limit>>.
Scoring == [out |-> "score", score |-> Zero, terms |-> <<>>]
Leave(st, out) == [out |-> out, score |-> Zero, terms |-> st.terms]
\* score += requirement / limit
Add(st, requirement, limit) ==
    [st EXCEPT !.score = Plus(@, Ratio(requirement, limit)),
               !.terms = Append(@, <<requirement, limit>>)]

\* Mutant: a finite limit must be met exactly.
CheckLimitExact(st, requirement, limit) ==
    IF st.out # "score" THEN st
    ELSE IF ~isinf(limit) /\ requirement # limit THEN Leave(st, "None")
    ELSE IF isinf(limit) THEN st
    ELSE IF limit = 0 THEN Leave(st, "ZeroDivisionError")
    ELSE Add(st, requirement, limit)

\* Mutant: a limit of zero is no ceiling.
CheckLimitZeroNoCeiling(st, requirement, limit) ==
    IF st.out # "score" THEN st
    ELSE IF ~isinf(limit) /\ limit # 0 /\ requirement > limit THEN Leave(st, "None")
    ELSE IF isinf(limit) THEN st
    ELSE IF limit = 0 THEN Leave(st, "ZeroDivisionError")
    ELSE Add(st, requirement, limit)

\* `if not isinf(limit) and requirement > limit: return None` followed by
\* `if not isinf(limit): score += requirement / limit`.
CheckLimit(st, requirement, limit) ==
    IF st.out # "score" THEN st
    ELSE IF ~isinf(limit) /\ requirement > limit THEN Leave(st, "None")
    ELSE IF isinf(limit) THEN st
    ELSE IF limit = 0 THEN Leave(st, "ZeroDivisionError")
    ELSE Add(st, requirement, limit)

\* Lines 262-270: the resource keys of the loop and their limits, in order.
numerical_resources(limits) ==
    << <<"mem_mb", Limit(limits, "max_mem_mb")>>,
       <<"mem_mb_per_cpu", Limit(limits, "max_mem_mb_per_cpu")>>,
       <<"runtime", max_runtime(limits)>>,
       <<"nodes", Limit(limits, "max_nodes")>>,
       <<"tasks", Limit(limits, "max_tasks")>>,
       <<"tasks_per_node", Limit(limits, "max_tasks_per_node")>>,
       <<"mpi_tasks", Limit(limits, "max_mpi_tasks")>> >>

\* Lines 274-278: the `or` chain gives the first non-empty of slurm_cluster
\* and cluster, else whatever clusters holds (None when the key is absent).
job_cluster(j) ==
    IF Get(j.resources, "slurm_cluster", "") # ""
    THEN [given |-> TRUE, name |-> j.resources.slurm_cluster]
    ELSE IF Get(j.resources, "cluster", "") # ""
    THEN [given |-> TRUE, name |-> j.resources.cluster]
    ELSE [given |-> "clusters" \in DOMAIN j.resources,
          name |-> Get(j.resources, "clusters", "")]

\* Mutant: a partition without a cluster takes jobs of every cluster.
ClusterEligibleOrUntagged(p, j) ==
    LET jc == job_cluster(j) IN
    IF jc.given
    THEN "partition_cluster" \notin DOMAIN p \/ p.partition_cluster = jc.name
    ELSE "partition_cluster" \notin DOMAIN p

\* Lines 285-290: FALSE where the code returns None.
ClusterEligible(p, j) ==
    LET jc == job_cluster(j) IN
    IF jc.given
    THEN "partition_cluster" \in DOMAIN p /\ p.partition_cluster = jc.name
    ELSE "partition_cluster" \notin DOMAIN p

\* Lines 292-307.
RECURSIVE NumericalLoop(_, _, _)
NumericalLoop(st, rs, j) ==
    IF rs = <<>> THEN st
    ELSE LET job_requirement == Get(j.resources, Head(rs)[1], 0)
             limit == Head(rs)[2]
         IN  NumericalLoop(IF job_requirement > 0
                           THEN CheckLimit(st, job_requirement, limit)
                           ELSE st,
                           Tail(rs), j)

\* Lines 309-319.
CheckThreads(st, limits, j) ==
    CheckLimit(st, get_effective_threads(j), Limit(limits, "max_threads"))

\* Lines 321-347.
CheckCpus(st, limits, j) ==
    IF st.out # "score" THEN st
    ELSE LET cpu == get_job_cpu_requirement(j) IN
         IF cpu.out # "ok" THEN Leave(st, cpu.out)
         ELSE IF cpu.cpu_type = "task" /\ cpu.cpu_count > 0
         THEN CheckLimit(CheckLimit(st, cpu.cpu_count, Limit(limits, "max_threads")),
                         cpu.cpu_count, Limit(limits, "max_cpus_per_task"))
         ELSE IF cpu.cpu_type = "gpu" /\ cpu.cpu_count > 0
         THEN CheckLimit(st, cpu.cpu_count, Limit(limits, "max_cpus_per_gpu"))
         ELSE st

\* `x and limits.available_...`: a list that is None or empty is false.
Truthy(limits, key) == key \in DOMAIN limits /\ limits[key] # {}

\* Lines 349-357.
CheckGpu(st, limits, j) ==
    IF st.out # "score" THEN st
    ELSE LET gpu == parse_gpu_requirements(j) IN
         IF gpu.out # "ok" THEN Leave(st, gpu.out)
         ELSE IF gpu.gpu_count <= 0 THEN st
         ELSE IF max_gpu(limits) = 0 \/ gpu.gpu_count > max_gpu(limits)
         THEN Leave(st, "None")
         ELSE LET scored == Add(st, gpu.gpu_count, max_gpu(limits))
              IN  IF /\ gpu.gpu_model # ""
                     /\ Truthy(limits, "available_gpu_models")
                     /\ gpu.gpu_model \notin limits.available_gpu_models
                  THEN Leave(scored, "None")
                  ELSE scored

\* Lines 359-360.
CheckMpi(st, limits, j) ==
    IF st.out # "score" THEN st
    ELSE IF Get(j.resources, "mpi", FALSE) /\ ~supports_mpi(limits)
    THEN Leave(st, "None")
    ELSE st

\* Lines 362-374.  The constraint string is held as constraint.split(",");
\* <<"">> is the empty string.
required_constraints(constraint) ==
    {constraint[k] : k \in {i \in DOMAIN constraint : constraint[i] # ""}}
CheckConstraints(st, limits, j) ==
    IF st.out # "score" THEN st
    ELSE LET constraint == Get(j.resources, "constraint", <<"">>) IN
         IF /\ constraint # <<"">>
            /\ Truthy(limits, "available_constraints")
            /\ ~(required_constraints(constraint) \subseteq limits.available_constraints)
         THEN Leave(st, "None")
         ELSE st

score_job_fit(p, j) ==
    IF ~ClusterEligible(p, j) THEN Leave(Scoring, "None")
    ELSE CheckConstraints(
           CheckMpi(
             CheckGpu(
               CheckCpus(
                 CheckThreads(
                   NumericalLoop(Scoring, numerical_resources(p.limits), j),
                   p.limits, j),
                 p.limits, j),
               p.limits, j),
             p.limits, j),
           p.limits, j)

\* Mutant: of the partitions with the highest score the last one is taken.
BestLast(fits, scored) ==
    CHOOSE i \in scored :
        /\ \A k \in scored : ~Less(fits[i].score, fits[k].score)
        /\ \A k \in scored : k > i => Less(fits[k].score, fits[i].score)

\* Line 71: max(scored_partitions, key=...) is the first of the partitions
\* with the highest score.
Best(fits, scored) ==
    CHOOSE i \in scored :
        /\ \A k \in scored : ~Less(fits[i].score, fits[k].score)
        /\ \A k \in scored : k < i => Less(fits[k].score, fits[i].score)

\* Lines 58-83.  An exception of score_job_fit leaves the loop at the first
\* partition that raises it.
get_best_partition(ps, j) ==
    LET fits == [i \in DOMAIN ps |-> score_job_fit(ps[i], j)]
        raising == {i \in DOMAIN ps : fits[i].out \notin {"score", "None"}}
        scored == {i \in DOMAIN ps : fits[i].out = "score" /\ Less(Zero, fits[i].score)}
    IN  IF raising # {}
        THEN [pc |-> "raised", fits |-> fits, found |-> FALSE, partition |-> "",
              error |-> fits[CHOOSE i \in raising : \A k \in raising : i <= k].out]
        ELSE IF scored # {}
        THEN [pc |-> "returned", fits |-> fits, found |-> TRUE,
              partition |-> ps[Best(fits, scored)].name, error |-> ""]
        ELSE [pc |-> "returned", fits |-> fits, found |-> FALSE, partition |-> "",
              error |-> ""]

\* ------------------------------------------------- the inputs of SpecPart
\* Longest list of partitions.
MaxPartitions == 2

\* job.threads of a job with more than the default thread.
ThreadCounts == {4}

GresGpu2 == << <<"gpu", "2">> >>
GresA100 == << <<"gpu", "a100", "1">> >>
GresShardV100 == << <<"shard", "1">>, <<"gpu", "v100", "2">> >>
GresEgpu == << <<"egpu", "1">> >>
GresNoCount == << <<"gpu", "a100">> >>

CpuResources ==
    {<<>>,
     [mem_mb |-> 4],
     [mem_mb |-> 8, runtime |-> 2],
     [threads |-> 2],
     [cpus_per_task |-> 0],
     [cpus_per_task |-> 1],
     [cpus_per_task |-> 4],
     [nodes |-> 1, tasks |-> 2]}

GpuResources ==
    {[gpu |-> 1],
     [gpu |-> 3],
     [gpu |-> 2, gpu_model |-> "a100"],
     [gpu |-> 1, gpu_model |-> "v100"],
     [gpu |-> 1, cpus_per_gpu |-> 2],
     [gpu |-> 1, cpus_per_gpu |-> 4],
     [gpu |-> 1, cpus_per_task |-> 1],
     [gres |-> GresGpu2],
     [gres |-> GresA100],
     [gres |-> GresShardV100],
     [gres |-> GresEgpu]}

OtherResources ==
    {[constraint |-> <<"intel">>],
     [constraint |-> <<"intel", "amd">>],
     [constraint |-> <<"intel", "">>, mem_mb |-> 4],
     [mpi |-> TRUE],
     [slurm_cluster |-> "A"],
     [cluster |-> "B"],
     [clusters |-> "A", mem_mb |-> 4],
     [clusters |-> ""],
     [slurm_cluster |-> "", cluster |-> "A", mem_mb |-> 2]}

\* Resources that make parse_gpu_requirements or get_job_cpu_requirement raise.
RaisingResources ==
    {[gpu |-> 1, gres |-> GresGpu2],
     [cpus_per_task |-> -1],
     [gres |-> GresNoCount]}

Resources == CpuResources \cup GpuResources \cup OtherResources \cup RaisingResources

\* job.threads is None, the default 1 (CPU jobs), or 4.
Jobs ==
    {[resources |-> r] : r \in Resources}
    \cup {[threads |-> 1, resources |-> r] : r \in CpuResources}
    \cup {[threads |-> t, resources |-> r] : t \in ThreadCounts, r \in Resources}

\* Entries of the partition file.  The limits are powers of two, so that the
\* float sums of the code are exact and equal the fractions of the model.
LimitsOfFile ==
    {<<>>,
     [max_mem_mb |-> 4],
     [max_mem_mb |-> 8, max_runtime |-> 4, max_nodes |-> 2, max_tasks |-> 2],
     [max_mem_mb |-> 0, max_gpu |-> -1],
     [max_threads |-> 0, max_cpus_per_task |-> -1],
     [max_threads |-> 2],
     [max_cpus_per_task |-> 2],
     [max_threads |-> 4, max_cpus_per_task |-> 4],
     [max_gpu |-> 1, max_cpus_per_gpu |-> 2],
     [max_gpu |-> 2, max_threads |-> 2],
     [max_gpu |-> 2, available_gpu_models |-> {}],
     [max_gpu |-> 2, available_gpu_models |-> {"a100"}],
     [available_constraints |-> {}],
     [max_mem_mb |-> 4, available_constraints |-> {"intel", "amd"}],
     [supports_mpi |-> FALSE]}

ClusteredLimits == {[max_mem_mb |-> 4]}
ClusterNames == {"A", "B"}

PartitionEntries ==
    {[limits |-> l] : l \in LimitsOfFile}
    \cup {[limits |-> l, partition_cluster |-> c] : l \in ClusteredLimits, c \in ClusterNames}

\* read_partition_file, lines 36-55: the Partition of the i-th entry; the
\* names of a mapping are distinct.
PartitionOf(i, entry) ==
    IF "partition_cluster" \in DOMAIN entry
    THEN [name |-> "p" \o ToString(i), limits |-> entry.limits,
          partition_cluster |-> entry.partition_cluster]
    ELSE [name |-> "p" \o ToString(i), limits |-> entry.limits]

PartitionLists ==
    {[i \in DOMAIN es |-> PartitionOf(i, es[i])] :
        es \in UNION {[1..n -> PartitionEntries] : n \in 0..MaxPartitions}}

\* The executor at rest while a partition is selected or a time is parsed.
ExecutorIdle ==
    /\ status_attempts = DefaultStatusAttempts
    /\ Started
    /\ \A i \in InitialIntervals : initial_interval <= i

\* The call get_best_partition(candidate_partitions, job, logger).
GetBestPartition ==
    /\ selection.pc = "idle"
    /\ selection' = get_best_partition(candidate_partitions, job)
    /\ UNCHANGED <<job, candidate_partitions, time_vars, cancel_vars, query_vars, executor_vars>>

InitPart ==
    /\ ExecutorIdle
    /\ NotParsing
    /\ NotCancelling
    /\ NotQuerying
    /\ job \in Jobs
    /\ candidate_partitions \in PartitionLists
    /\ selection = [pc |-> "idle"]

NextPart == GetBestPartition

SpecPart == InitPart /\ [][NextPart]_vars

\* ---------------------------------------------------------------- SpecTime
\* utils.parse_time_to_minutes.  A string is the sequence of its characters.
DigitChars == {"0", "1", "2", "3", "4", "5", "6", "7", "8", "9"}
DigitOf ==
    [c \in DigitChars |->
        CASE c = "0" -> 0 [] c = "1" -> 1 [] c = "2" -> 2 [] c = "3" -> 3
          [] c = "4" -> 4 [] c = "5" -> 5 [] c = "6" -> 6 [] c = "7" -> 7
          [] c = "8" -> 8 [] c = "9" -> 9]
IsDigits(s) == s # <<>> /\ \A i \in DOMAIN s : s[i] \in DigitChars
RECURSIVE Natural(_)
Natural(s) ==
    IF s = <<>> THEN 0
    ELSE 10 * Natural(SubSeq(s, 1, Len(s) - 1)) + DigitOf[s[Len(s)]]
RECURSIVE Power10(_)
Power10(n) == IF n = 0 THEN 1 ELSE 10 * Power10(n - 1)

\* sep in s, s.strip(), s.split(sep)
In(sep, s) == \E i \in DOMAIN s : s[i] = sep
RECURSIVE strip(_)
strip(s) ==
    IF s # <<>> /\ Head(s) = " " THEN strip(Tail(s))
    ELSE IF s # <<>> /\ s[Len(s)] = " " THEN strip(SubSeq(s, 1, Len(s) - 1))
    ELSE s
RECURSIVE split(_, _)
split(s, sep) ==
    IF ~In(sep, s) THEN <<s>>
    ELSE LET i == CHOOSE k \in DOMAIN s : s[k] = sep /\ \A m \in 1..(k - 1) : s[m] # sep
         IN  <<SubSeq(s, 1, i - 1)>> \o split(SubSeq(s, i + 1, Len(s)), sep)

\* Line 15: round_half_up(n) = floor(n + 0.5), for n = q[1] / q[2].
round_half_up(q) == (2 * q[1] + q[2]) \div (2 * q[2])

\* int(s) and float(s) of a string of digits, signs, dots and blanks; ok is
\* FALSE for a ValueError.
Number(ok, value) == [ok |-> ok, value |-> value]
int(s) ==
    LET t == strip(s)
    IN  IF IsDigits(t) THEN Number(TRUE, Natural(t))
        ELSE IF t # <<>> /\ Head(t) = "-" /\ IsDigits(Tail(t))
        THEN Number(TRUE, 0 - Natural(Tail(t)))
        ELSE Number(FALSE, 0)
\* digits[.digits], digits. and .digits as a fraction
Decimal(t) ==
    LET ps == split(t, ".")
    IN  IF Len(ps) = 1 /\ IsDigits(ps[1]) THEN Number(TRUE, <<Natural(ps[1]), 1>>)
        ELSE IF /\ Len(ps) = 2
                /\ ps[1] \o ps[2] # <<>>
                /\ \A i \in DOMAIN (ps[1] \o ps[2]) : (ps[1] \o ps[2])[i] \in DigitChars
        THEN Number(TRUE, <<Natural(ps[1]) * Power10(Len(ps[2])) + Natural(ps[2]),
                            Power10(Len(ps[2]))>>)
        ELSE Number(FALSE, Zero)
float(s) ==
    LET t == strip(s)
    IN  IF t # <<>> /\ Head(t) = "-"
        THEN LET d == Decimal(Tail(t))
             IN  Number(d.ok, <<0 - d.value[1], d.value[2]>>)
        ELSE Decimal(t)

\* What parse_time_to_minutes did: returned minutes, or raised WorkflowError.
ReturnMinutes(n) == [pc |-> "returned", minutes |-> n]
RaiseInvalid == [pc |-> "raised", minutes |-> 0]

\* Lines 78-98: the fields after the days, then the total.
TimeParts(days, time_parts) ==
    LET f(i) == int(time_parts[i])
        total(hours, minutes, seconds) ==
            Number(TRUE, round_half_up(<<(days * 24 * 60 + hours * 60 + minutes) * 60
                                          + seconds, 60>>))
    IN  IF Len(time_parts) = 1
        THEN IF ~f(1).ok THEN Number(FALSE, 0)
             ELSE IF days > 0 THEN total(f(1).value, 0, 0)
             ELSE total(0, f(1).value, 0)
        ELSE IF Len(time_parts) = 2
        THEN IF ~f(1).ok \/ ~f(2).ok THEN Number(FALSE, 0)
             ELSE total(f(1).value, f(2).value, 0)
        ELSE IF Len(time_parts) = 3
        THEN IF ~f(1).ok \/ ~f(2).ok \/ ~f(3).ok THEN Number(FALSE, 0)
             ELSE total(f(1).value, f(2).value, f(3).value)
        ELSE Number(FALSE, 0)

\* Lines 60-102: the SLURM formats.  time_str is what the variable holds when
\* the block is left: the text after the dash once the days were read.
SlurmStyle(s) ==
    IF In("-", s)
    THEN LET parts == split(s, "-") IN
         IF Len(parts) # 2 \/ ~int(parts[1]).ok
         THEN [ok |-> FALSE, value |-> 0, time_str |-> s]
         ELSE LET r == TimeParts(int(parts[1]).value, split(parts[2], ":"))
              IN  [ok |-> r.ok, value |-> r.value, time_str |-> parts[2]]
    ELSE LET r == TimeParts(0, split(s, ":"))
         IN  [ok |-> r.ok, value |-> r.value, time_str |-> s]

\* Lines 104-131: re.findall(r"(\d+(?:\.\d+)?)\s*([dhms])", ...) from
\* position i on, as <<value, unit>> pairs, the value a fraction.
UnitChars == {"d", "h", "m", "s"}
DigitsEnd(s, i) ==
    CHOOSE k \in i..(Len(s) + 1) :
        /\ \A m \in i..(k - 1) : s[m] \in DigitChars
        /\ k = Len(s) + 1 \/ s[k] \notin DigitChars
BlanksEnd(s, i) ==
    CHOOSE k \in i..(Len(s) + 1) :
        /\ \A m \in i..(k - 1) : s[m] = " "
        /\ k = Len(s) + 1 \/ s[k] # " "
\* The match that starts at i: its end (0: none) and value.
MatchAt(s, i) ==
    LET a == DigitsEnd(s, i)
        frac == a <= Len(s) /\ s[a] = "." /\ DigitsEnd(s, a + 1) > a + 1
        b == IF frac THEN DigitsEnd(s, a + 1) ELSE a
        u == BlanksEnd(s, b)
        whole == Natural(SubSeq(s, i, a - 1))
        value == IF frac
                 THEN <<whole * Power10(b - a - 1) + Natural(SubSeq(s, a + 1, b - 1)),
                        Power10(b - a - 1)>>
                 ELSE <<whole, 1>>
    IN  IF a > i /\ u <= Len(s) /\ s[u] \in UnitChars
        THEN [end |-> u, value |-> value, unit |-> s[u]]
        ELSE [end |-> 0, value |-> Zero, unit |-> ""]
RECURSIVE findall(_, _)
findall(s, i) ==
    IF i > Len(s) THEN <<>>
    ELSE LET m == MatchAt(s, i) IN
         IF m.end = 0 THEN findall(s, i + 1)
         ELSE <<m>> \o findall(s, m.end + 1)
\* A second read as a minute.
UnitMinutesSecondAsMinute(m) ==
    CASE m.unit = "d" -> <<m.value[1] * 24 * 60, m.value[2]>>
      [] m.unit = "h" -> <<m.value[1] * 60, m.value[2]>>
      [] m.unit = "m" -> m.value
      [] m.unit = "s" -> m.value
UnitMinutes(m) ==
    CASE m.unit = "d" -> <<m.value[1] * 24 * 60, m.value[2]>>
      [] m.unit = "h" -> <<m.value[1] * 60, m.value[2]>>
      [] m.unit = "m" -> m.value
      [] m.unit = "s" -> <<m.value[1], m.value[2] * 60>>
RECURSIVE total_minutes(_)
total_minutes(matches) ==
    IF matches = <<>> THEN Zero
    ELSE LET a == UnitMinutes(Head(matches))
             b == total_minutes(Tail(matches))
         IN  Plus(a, b)
\* Line 107: time_str.lower(), on the letters of the units.
Lower ==
    [c \in {"D", "H", "M", "S"} |->
        CASE c = "D" -> "d" [] c = "H" -> "h" [] c = "M" -> "m" [] c = "S" -> "s"]
lower(s) == [i \in DOMAIN s |-> IF s[i] \in DOMAIN Lower THEN Lower[s[i]] ELSE s[i]]
SnakemakeStyle(s) ==
    LET matches == findall(lower(s), 1)
    IN  IF matches = <<>> THEN RaiseInvalid
        ELSE ReturnMinutes(round_half_up(total_minutes(matches)))

\* Lines 49-131, for a string.
parse_time_to_minutes(time_value_) ==
    LET time_str == strip(time_value_)
        plain == float(time_str)
        slurm == SlurmStyle(time_str)
    IN  IF plain.ok THEN ReturnMinutes(round_half_up(plain.value))
        ELSE IF In("-", time_str) \/ In(":", time_str)
        THEN IF slurm.ok THEN ReturnMinutes(slurm.value)
             ELSE SnakemakeStyle(slurm.time_str)
        ELSE SnakemakeStyle(time_str)

\* Lines 46-47: an int or a float is rounded to whole minutes.
NumericMinutes(n) == ReturnMinutes(round_half_up(n))

\* ------------------------------------------------- the inputs of SpecTime
\* Largest day count of a time string.
MaxDays == 2
Hours == {0, 1, 12}
Minutes == {0, 30, 59}
Seconds == {0, 29, 30, 59}

\* str(n), and n in two digits
RECURSIVE Str(_)
Str(n) ==
    LET c == CHOOSE d \in DigitChars : DigitOf[d] = n % 10
    IN  IF n < 10 THEN <<c>> ELSE Str(n \div 10) \o <<c>>
Str2(n) == IF n < 10 THEN <<"0">> \o Str(n) ELSE Str(n)

Shapes == {"HH:MM", "HH:MM:SS", "D-HH", "D-HH:MM", "D-HH:MM:SS"}
\* The string of a shape: the first field as written, the others in two digits.
Shaped(shape, d, h, m, s) ==
    CASE shape = "HH:MM" -> Str(h) \o <<":">> \o Str2(m)
      [] shape = "HH:MM:SS" -> Str(h) \o <<":">> \o Str2(m) \o <<":">> \o Str2(s)
      [] shape = "D-HH" -> Str(d) \o <<"-">> \o Str2(h)
      [] shape = "D-HH:MM" -> Str(d) \o <<"-">> \o Str2(h) \o <<":">> \o Str2(m)
      [] shape = "D-HH:MM:SS" ->
            Str(d) \o <<"-">> \o Str2(h) \o <<":">> \o Str2(m) \o <<":">> \o Str2(s)

ShapedStrings ==
    {Shaped(shape, d, h, m, s) :
        shape \in Shapes, d \in 0..MaxDays, h \in Hours, m \in Minutes, s \in Seconds}

\* Strings of the other notations, and strings of none.
OtherStrings ==
    {<<"6", "0">>, <<" ", "9", "0", " ">>, <<"1", ".", "5">>, <<"-", "5">>,
     <<"2", "h">>, <<"1", "d">>, <<"9", "0", "s">>, <<"1", ".", "5", "h">>,
     <<"2", "d", "1", "2", "h", "3", "0", "m">>, <<"2", " ", "h">>,
     <<"1", "-", "2", "h">>, <<"1", ":", "3", "0", "m">>, <<"1", "-", "2", "-", "3">>,
     <<"1", ":", "2", ":", "3", ":", "4">>, <<"-", "5", ":", "3", "0">>,
     <<"a", "b", "c">>, <<"h">>, <<>>, <<":">>, <<"1", "2", "x", "5", "h">>,
     <<"1", "2", "0">>, <<"0">>, <<"1", "2", "0", ".", "5">>, <<"1", "2", "0", ".", "4">>,
     <<"8", "6", "4", "0">>, <<"6", "d">>, <<"6", "-", "0">>,
     <<"1", "-", "0", ":", "3", "0">>, <<"6", "D">>, <<"0", ".", "5", "d">>,
     <<"6", "h", "3", "0", "s">>, <<" ", " ", "6", "d", " ", " ">>,
     <<"2", "d", " ", "1", "2", "h", " ", "3", "0", "m">>,
     <<"i", "n", "v", "a", "l", "i", "d">>, <<"6", "x">>,
     <<"a", "b", "c", "1", "2", "3">>, <<"a", "b", "c", "5", "m">>,
     <<"5", "m", "x">>, <<"1", ":", "x", "5", "m">>, <<"1", "-", "2", "-", "3", "h">>}

\* Unit notation: up to MaxUnits parts, each a value as written and a unit.
MaxUnits == 2
UnitValues == {<<"2">>, <<"3", "0">>, <<"1", ".", "5">>}
UnitParts == UnitValues \X UnitChars
UnitPartSeqs == UNION {[1..n -> UnitParts] : n \in 1..MaxUnits}
RECURSIVE Written(_)
Written(ps) ==
    IF ps = <<>> THEN <<>>
    ELSE Head(ps)[1] \o <<Head(ps)[2]>> \o Written(Tail(ps))
UnitStrings == {Written(ps) : ps \in UnitPartSeqs}

TimeStrings == ShapedStrings \cup OtherStrings \cup UnitStrings

\* int and float arguments, as fractions: 120, 0, 1440, 8640, 120.5, 0.5, 120.4
TimeNumbers == {<<120, 1>>, <<0, 1>>, <<1440, 1>>, <<8640, 1>>, <<241, 2>>, <<1, 2>>,
                <<602, 5>>}

\* The call parse_time_to_minutes(time_value).
ParseTimeToMinutes ==
    /\ parsed.pc = "idle"
    /\ parsed' = IF time_number.given THEN NumericMinutes(time_number.value)
                  ELSE parse_time_to_minutes(time_value)
    /\ UNCHANGED <<time_value, time_number, part_vars, cancel_vars, query_vars, executor_vars>>

InitTime ==
    /\ ExecutorIdle
    /\ NotSelecting
    /\ NotCancelling
    /\ NotQuerying
    /\ \/ /\ time_value \in TimeStrings
          /\ time_number = [given |-> FALSE]
       \/ /\ time_value = <<>>
          /\ time_number \in {[given |-> TRUE, value |-> n] : n \in TimeNumbers}
    /\ parsed = [pc |-> "idle"]

NextTime == ParseTimeToMinutes

SpecTime == InitTime /\ [][NextTime]_vars

\* -------------------------------------------------------------- SpecCancel
\* Executor.cancel_jobs (__init__.py 800-829) and
\* job_cancellation.cancel_slurm_jobs, which differ in the --clusters=all
\* flag and in running scancel through a shell.
\* Longest list of active jobs handed to cancel_jobs.
MaxCancel == 3
CancelIds == 1..MaxCancel
\* Lists of SubmittedJobInfo with pairwise distinct external job ids.
ActiveJobLists ==
    {l \in UNION {[1..n -> [external_jobid : CancelIds]] : n \in 0..MaxCancel} :
        \A i, k \in DOMAIN l : i # k => l[i] # l[k]}
SubmittedClusters == {{}, {"A"}}

\* How subprocess.check_output ends, and the stderr of a failed scancel.
ScancelOutcomes == {"ok", "TimeoutExpired", "CalledProcessError"}
Stderrs == {"", "scancel: error"}

\* " ".join([job_info.external_jobid for job_info in active_jobs])
jobids(active) == [i \in DOMAIN active |-> active[i].external_jobid]

\* One scancel per job.
RunScancelPerJob(active, clusters_all, outcome) ==
    [i \in DOMAIN active |->
        [jobids |-> <<active[i].external_jobid>>, clusters_all |-> clusters_all,
         outcome |-> outcome]]
\* `if active_jobs:` and subprocess.check_output(scancel_command, ...): the
\* commands run, each with the way it ended.
RunScancel(active, clusters_all, outcome) ==
    IF active = <<>> THEN <<>>
    ELSE <<[jobids |-> jobids(active), clusters_all |-> clusters_all,
            outcome |-> outcome]>>

\* What the call did: the warnings it logged and the exception it raised.
Cancelled(pc_, warnings, error, msg) ==
    [pc |-> pc_, warnings |-> warnings, error |-> error, msg |-> msg]
\* msg = e.stderr.strip(); if msg: msg = f": {msg}"; then the cluster hint.
ScancelMessage(stderr, hint) ==
    (IF stderr # "" THEN <<": ", stderr>> ELSE <<>>)
        \o (IF hint THEN <<"WARNING: Job cancellation failed while using --clusters flag">>
            ELSE <<>>)
\* A timeout escalated like a failed scancel.
AfterScancelTimeoutRaises(active, outcome, stderr, hint) ==
    IF active = <<>> \/ outcome = "ok"
    THEN Cancelled("returned", <<>>, "", <<>>)
    ELSE IF outcome \in {"CalledProcessError", "TimeoutExpired"}
    THEN Cancelled("raised", <<>>, "WorkflowError", ScancelMessage(stderr, hint))
    ELSE Cancelled("raised", <<>>, outcome, <<>>)
\* The try/except around the call.  An exception of another class leaves
\* the function as it is.
AfterScancel(active, outcome, stderr, hint) ==
    IF active = <<>> \/ outcome = "ok"
    THEN Cancelled("returned", <<>>, "", <<>>)
    ELSE IF outcome = "TimeoutExpired"
    THEN Cancelled("returned", <<"Unable to cancel jobs within a minute.">>, "", <<>>)
    ELSE IF outcome = "CalledProcessError"
    THEN Cancelled("raised", <<>>, "WorkflowError", ScancelMessage(stderr, hint))
    ELSE Cancelled("raised", <<>>, outcome, <<>>)

\* Executor.cancel_jobs(active_jobs): scancel <jobids> --clusters=all through
\* a shell, so that a missing scancel is a non-zero exit of the shell.
CancelJobs ==
    /\ cancelled.pc = "idle"
    /\ \E outcome \in ScancelOutcomes, stderr \in Stderrs :
           /\ scancel' = scancel \o RunScancel(cancel_active_jobs, TRUE, outcome)
           /\ cancelled' = AfterScancel(cancel_active_jobs, outcome, stderr, FALSE)
    /\ UNCHANGED <<cancel_active_jobs, submitted_job_clusters, part_vars, time_vars,
                   query_vars, executor_vars>>

\* cancel_slurm_jobs(active_jobs, submitted_job_clusters, logger): the flag
\* only when a cluster was submitted to, and scancel run without a shell, so
\* that a missing scancel is an OSError.
CancelSlurmJobs ==
    /\ cancelled.pc = "idle"
    /\ \E outcome \in ScancelOutcomes \cup {"OSError"}, stderr \in Stderrs :
           /\ scancel' = scancel \o RunScancel(cancel_active_jobs,
                                                 submitted_job_clusters # {}, outcome)
           /\ cancelled' = AfterScancel(cancel_active_jobs, outcome, stderr,
                                         submitted_job_clusters # {})
    /\ UNCHANGED <<cancel_active_jobs, submitted_job_clusters, part_vars, time_vars,
                   query_vars, executor_vars>>

InitCancel ==
    /\ ExecutorIdle
    /\ NotSelecting
    /\ NotParsing
    /\ NotQuerying
    /\ cancel_active_jobs \in ActiveJobLists
    /\ submitted_job_clusters \in SubmittedClusters
    /\ scancel = <<>>
    /\ cancelled = [pc |-> "idle"]

NextCancel == CancelJobs \/ CancelSlurmJobs

SpecCancel == InitCancel /\ [][NextCancel]_vars

\* --------------------------------------------------------------- SpecParse
\* The two functions that turn the output of a status command into a
\* snapshot: Executor.job_stati (__init__.py 850-856) and
\* job_status_query.query_job_status (lines 204-213).  The output is the
\* list of rows csv.reader yields for the delimiter "|"; a status field is
\* the sequence of its words and blanks.
\* Longest output, in rows.
MaxRows == 2
StatusFields ==
    {<<"COMPLETED">>, <<"RUNNING">>, <<"FAILED", " ">>,
     <<"CANCELLED", " ", "by", " ", "1234">>, <<>>}
\* A row "<id>|<status field>", or a row without a "|".
Rows == [job_id : JobIds, state : StatusFields] \cup [job_id : JobIds]
Outputs == UNION {[1..n -> Rows] : n \in 0..MaxRows}

\* "".join(pieces)
RECURSIVE Join(_)
Join(pieces) == IF pieces = <<>> THEN "" ELSE Head(pieces) \o Join(Tail(pieces))

Queried(pc_, via, res) == [pc |-> pc_, via |-> via, res |-> res]

\* row[1].strip()
whole_field(field) == Join(strip(field))
\* entry[1].split(sep=None, maxsplit=1)[0]
first_token(field) == Join(split(strip(field), " ")[1])

\* Lines 850-856: the dict comprehension over the rows, a later row of a job
\* replacing an earlier one.  entry[1] of a row without "|" and [0] of the
\* split of a blank field are IndexErrors, which job_stati does not catch.
RECURSIVE job_stati_rows(_, _, _)
job_stati_rows(command, rows, res) ==
    IF rows = <<>> THEN Queried("returned", command, res)
    ELSE LET entry == Head(rows) IN
         IF "state" \notin DOMAIN entry \/ strip(entry.state) = <<>>
         THEN Queried("raised", command, <<>>)
         ELSE job_stati_rows(command, Tail(rows),
                             (entry.job_id :> first_token(entry.state)) @@ res)

\* query_job_status, lines 204-213: rows with fewer than two fields are
\* skipped, and status = row[1].strip().
RECURSIVE query_job_status_rows(_, _, _)
query_job_status_rows(command, rows, res) ==
    IF rows = <<>> THEN Queried("returned", command, res)
    ELSE LET row == Head(rows) IN
         IF "state" \notin DOMAIN row
         THEN query_job_status_rows(command, Tail(rows), res)
         ELSE query_job_status_rows(command, Tail(rows),
                                    (row.job_id :> whole_field(row.state)) @@ res)

\* job_stati(status_command) on a command that ran and printed command_res.
JobStati ==
    /\ status_command_name # ""
    /\ queried.pc = "idle"
    /\ queried' = job_stati_rows(status_command_name, command_res, <<>>)
    /\ UNCHANGED <<configured, sacct_available, min_job_age, status_command_name,
                   command_res, part_vars, time_vars, cancel_vars, executor_vars>>

\* query_job_status(command, logger) on the same output.
QueryJobStatus ==
    /\ status_command_name # ""
    /\ queried.pc = "idle"
    /\ queried' = query_job_status_rows("query_job_status", command_res, <<>>)
    /\ UNCHANGED <<configured, sacct_available, min_job_age, status_command_name,
                   command_res, part_vars, time_vars, cancel_vars, executor_vars>>

InitParse ==
    /\ ExecutorIdle
    /\ NotSelecting
    /\ NotParsing
    /\ NotCancelling
    /\ configured = ""
    /\ sacct_available = FALSE
    /\ min_job_age = [given |-> FALSE]
    /\ status_command_name \in {"sacct", "squeue"}
    /\ command_res \in Outputs
    /\ queried = [pc |-> "idle"]

NextParse == JobStati \/ QueryJobStatus

SpecParse == InitParse /\ [][NextParse]_vars

\* -------------------------------------------------------------- SpecChoose
\* check_active_jobs, lines 666-685: which status command a cycle uses.
\* status_command is "sacct", "squeue" or None (validation.py 176-181).
StatusCommands == {"sacct", "squeue", "None"}
\* MinJobAge as get_min_job_age() returns it: None, or seconds.
MinJobAges ==
    {[given |-> FALSE]}
        \cup {[given |-> TRUE, value |-> n] : n \in {0, 300, 479, 480, 599, 600, 3600}}

\* Mutant: a configured sacct is kept whether or not sacct is there.
ChooseStatusCommandKeepsSacct(name, age, available, interval) ==
    IF name = "squeue" /\ (~age.given \/ age.value < 3 * interval) /\ available
    THEN "sacct"
    ELSE name
\* Lines 667-681: status_command_name after the two ifs.
ChooseStatusCommand(name, age, available, interval) ==
    LET dynamic_check_threshold == 3 * interval
        replaced ==
            IF name = "squeue"
                  /\ (~age.given \/ age.value < dynamic_check_threshold)
                  /\ available
            THEN "sacct"
            ELSE name
    IN  IF replaced = "sacct" /\ ~available THEN "squeue" ELSE replaced
\* Lines 682-685: the command that is run.
StatusCommand(name) == IF name = "sacct" THEN "sacct" ELSE "squeue"

\* The decision of a cycle.
DecideStatusCommand ==
    /\ status_command_name = ""
    /\ status_command_name' =
           StatusCommand(ChooseStatusCommand(configured, min_job_age, sacct_available,
                                             initial_interval))
    /\ UNCHANGED <<configured, sacct_available, min_job_age, command_res, queried,
                   part_vars, time_vars, cancel_vars, executor_vars>>

\* The outputs of a command that lists one job.
ChooseOutputs ==
    {<<>>} \cup {<<[job_id |-> 1, state |-> f]>> : f \in StatusFields \ {<<>>}}

InitChoose ==
    /\ status_attempts = DefaultStatusAttempts
    /\ Started
    /\ NotSelecting
    /\ NotParsing
    /\ NotCancelling
    /\ configured \in StatusCommands
    /\ sacct_available \in BOOLEAN
    /\ min_job_age \in MinJobAges
    /\ status_command_name = ""
    /\ command_res \in ChooseOutputs
    /\ queried = [pc |-> "idle"]

NextChoose == DecideStatusCommand \/ JobStati

SpecChoose == InitChoose /\ [][NextChoose]_vars

\* ------------------------------------------------------------------ claims
\* What a finished cycle did to its jobs.
Reported == success \cup DOMAIN errors
TerminalStati ==
    {"COMPLETED", "UNKNOWN", "BOOT_FAIL", "CANCELLED", "DEADLINE", "FAILED",
     "NODE_FAIL", "OUT_OF_MEMORY", "TIMEOUT", "ERROR"}
NReports(j) == n_success[j] + n_error[j]

\* C1: when a cycle ends, every job of the list it was given has been either
\* reported (success or error) or yielded, exactly one of the two, whatever
\* the query attempts returned.
C1_ReportedOrYielded ==
    pc = "done" =>
        \A j \in cycle_jobs : (j \in Reported) # (j \in yielded)

\* C2: over all cycles a job gets at most one report callback; the callback
\* comes in a cycle whose snapshot holds a terminal status for the job; a
\* reported job is not yielded and never active again.
C2_AtMostOneReport ==
    \A j \in JobIds :
        /\ NReports(j) <= 1
        /\ NReports(j) = 1 =>
              /\ j \notin yielded
              /\ j \notin active_jobs
              /\ j \in cycle_jobs => pc = "done" /\ j \in Reported
        /\ (pc = "done" /\ j \in Reported) =>
              /\ ~(j \in success /\ j \in DOMAIN errors)
              /\ last_snapshot.ok
              /\ j \in DOMAIN last_snapshot.res
              /\ last_snapshot.res[j] \in TerminalStati

\* C2 witness: a cycle over another job ends after job 1 was reported in an
\* earlier cycle.
C2_Witness ==
    /\ pc = "done"
    /\ NReports(1) = 1
    /\ 1 \notin cycle_jobs
    /\ 2 \in yielded

\* C3: a cycle that reported at least one job, as succeeded or as failed,
\* ends with the wait at the configured initial interval.
C3_TerminalResetsWait ==
    (pc = "done" /\ ~aborted /\ Reported # {}) =>
        next_seconds_between_status_checks = initial_interval

\* C4: a cycle over a non-empty list that reported no job ends with the wait
\* at min(wait at entry + 10, 180), whatever the query attempts returned.
C4_NoTerminalGrowsWait ==
    (pc = "done" /\ cycle_jobs # {} /\ Reported = {}) =>
        next_seconds_between_status_checks = Min(prev_wait + 10, 180)

\* C5: with 5 attempts, when the backend's answers 1 and 2 are snapshots
\* without active job 1 and its answer 3 holds a terminal status for job 1,
\* the cycle reports job 1 and does not list it in the missing-jobs warning.
C5_GapRecovered ==
    (/\ pc = "done"
     /\ status_attempts = 5
     /\ 1 \in cycle_jobs
     /\ plan[1].ok /\ 1 \notin DOMAIN plan[1].res
     /\ plan[2].ok /\ 1 \notin DOMAIN plan[2].res
     /\ plan[3].ok /\ 1 \in DOMAIN plan[3].res
     /\ plan[3].res[1] \in TerminalStati)
    => (1 \in Reported /\ 1 \notin missing_warning)

\* The status the last snapshot of the finished cycle holds for job j.
HasStatus(j) == last_snapshot.ok /\ j \in DOMAIN last_snapshot.res
StatusOf(j) == last_snapshot.res[j]
Contains(msg, token) == \E k \in DOMAIN msg : msg[k] = token

C6_FailSet ==
    {"BOOT_FAIL", "CANCELLED", "DEADLINE", "FAILED",
     "NODE_FAIL", "OUT_OF_MEMORY", "TIMEOUT", "ERROR"}

\* C6: a job whose status in the last snapshot is in the fail set is
\* reported as failed with a message holding that status token, and is not
\* yielded; a job reported as failed has a status of the fail set.
C6_FailedReported ==
    pc = "done" =>
        /\ \A j \in cycle_jobs :
              (HasStatus(j) /\ StatusOf(j) \in C6_FailSet) =>
                  /\ j \in DOMAIN errors
                  /\ Contains(errors[j], StatusOf(j))
                  /\ j \notin yielded
                  /\ j \notin success
        /\ \A j \in DOMAIN errors :
              j \in cycle_jobs /\ HasStatus(j) /\ StatusOf(j) \in C6_FailSet

\* C6 witness: a cycle over two jobs reports the one with status TIMEOUT as
\* failed and yields the running one.
C6_Witness ==
    /\ pc = "done"
    /\ cycle_jobs = {1, 2}
    /\ HasStatus(1) /\ StatusOf(1) = "TIMEOUT"
    /\ 1 \in DOMAIN errors
    /\ 2 \in yielded

\* C7: a job whose status in the last snapshot is COMPLETED or UNKNOWN is
\* reported as succeeded and is not yielded; a job reported as succeeded has
\* one of these two statuses.
C7_SucceededReported ==
    pc = "done" =>
        /\ \A j \in cycle_jobs :
              (HasStatus(j) /\ StatusOf(j) \in {"COMPLETED", "UNKNOWN"}) =>
                  /\ j \in success
                  /\ j \notin yielded
                  /\ j \notin DOMAIN errors
        /\ \A j \in success :
              /\ j \in cycle_jobs
              /\ HasStatus(j)
              /\ StatusOf(j) \in {"COMPLETED", "UNKNOWN"}

\* C7 witness: one cycle reports a COMPLETED job and an UNKNOWN job.
C7_Witness ==
    /\ pc = "done"
    /\ HasStatus(1) /\ StatusOf(1) = "COMPLETED"
    /\ HasStatus(2) /\ StatusOf(2) = "UNKNOWN"
    /\ success = {1, 2}

\* Jobs of the finished cycle whose status is PREEMPTED.
Preempted == {j \in cycle_jobs : HasStatus(j) /\ StatusOf(j) = "PREEMPTED"}

\* C8: a PREEMPTED job is not reported and is yielded in every cycle that
\* sees it; over the lifetime at most one preemption warning is logged, in
\* the first cycle that sees a PREEMPTED status.
C8_PreemptedKept ==
    /\ n_preemption_warnings <= 1
    /\ n_preemption_warnings = 1 <=> preemption_warning
    /\ pc = "done" =>
          /\ Preempted \subseteq yielded
          /\ Preempted \cap Reported = {}
          /\ Preempted # {} => n_preemption_warnings = 1
          /\ warned = 1 <=> (Preempted # {} /\ n_preemption_warnings - warned = 0)

\* C8 witness: a cycle sees two PREEMPTED jobs after the warning was logged
\* in an earlier cycle, and logs none.
C8_Witness ==
    /\ pc = "done"
    /\ Preempted = {1, 2}
    /\ yielded = {1, 2}
    /\ warned = 0
    /\ n_preemption_warnings = 1

C9_KnownStati == C6_FailSet \cup {"COMPLETED", "UNKNOWN", "PREEMPTED"}

\* C9: a job absent from the last snapshot, or with a status other than
\* COMPLETED, UNKNOWN, PREEMPTED and the fail set, is yielded and not
\* reported; a job absent from the snapshot is never reported as failed.
C9_AbsentOrOtherYielded ==
    pc = "done" =>
        /\ last_snapshot.ok =>
              \A j \in cycle_jobs :
                  (~HasStatus(j) \/ StatusOf(j) \notin C9_KnownStati) =>
                      j \in yielded /\ j \notin Reported
        /\ \A j \in cycle_jobs : ~HasStatus(j) => j \notin DOMAIN errors

\* C9 witness: a cycle yields a job absent from the snapshot and a job whose
\* status is PENDING.
C9_Witness ==
    /\ pc = "done"
    /\ last_snapshot.ok
    /\ cycle_jobs = {1, 2}
    /\ ~HasStatus(1)
    /\ HasStatus(2) /\ StatusOf(2) = "PENDING"
    /\ yielded = {1, 2}

\* C10: a cycle over an empty list makes no status query, reports and
\* yields nothing, and leaves the wait at the configured initial interval.
C10_EmptyFastPath ==
    (pc = "done" /\ cycle_jobs = {}) =>
        /\ attempt = 0
        /\ ~last_snapshot.ok
        /\ Reported = {}
        /\ yielded = {}
        /\ next_seconds_between_status_checks = initial_interval

\* C10 witness: a cycle over an empty list, entered with a wait other than
\* the initial interval, ends with the wait at the initial interval.
C10_Witness ==
    /\ pc = "done"
    /\ cycle_jobs = {}
    /\ n_submitted > 0
    /\ prev_wait # initial_interval
    /\ next_seconds_between_status_checks = initial_interval

\* The classification loop run once more over the snapshot and the list of
\* the finished cycle, with the flag as the first run left it.
Reclassified ==
    ClassifyAll(ClassifyStart(DOMAIN last_snapshot.res \cap cycle_jobs,
                              preemption_warning),
                JobList(cycle_jobs), last_snapshot.res)

\* C11: classifying the snapshot of a finished cycle a second time against
\* the same list gives the same succeeded, failed and yielded jobs as the
\* first run; the second run logs no preemption warning and leaves the flag
\* as the first run set it, and the first run changed the flag only if it
\* logged the warning.
C11_ReclassifySame ==
    (pc = "done" /\ status_of_jobs.ok) =>
        LET st == Reclassified IN
        /\ ~st.aborted
        /\ st.success = success
        /\ st.errors = errors
        /\ st.yielded = yielded
        /\ st.warnings = 0
        /\ st.preemption_warning = preemption_warning
        /\ warned = 1 <=> (preemption_warning /\ n_preemption_warnings - warned = 0)

\* C11 witness: the first run logged the warning for PREEMPTED job 1 and
\* reported job 2; the second run yields job 1 silently.
C11_Witness ==
    /\ pc = "done"
    /\ status_of_jobs.ok
    /\ cycle_jobs = {1, 2}
    /\ HasStatus(1) /\ StatusOf(1) = "PREEMPTED"
    /\ warned = 1
    /\ 2 \in Reported
    /\ Reclassified.yielded = {1}
    /\ Reclassified.warnings = 0

\* --------------------------------------------------- claims on partitions
\* The partitions of the list that score_job_fit found eligible for the job.
Eligible == {i \in DOMAIN selection.fits : selection.fits[i].out = "score"}
Returned == selection.pc = "returned"
\* Position in the list of the partition that was returned.
Chosen == CHOOSE i \in DOMAIN candidate_partitions :
              candidate_partitions[i].name = selection.partition

\* C12: get_best_partition returns a partition whenever at least one
\* partition of the list is eligible for the job, and returns None only when
\* none is eligible; an eligible partition with score 0 counts.
C12_SelectsWheneverEligible ==
    Returned => (selection.found <=> Eligible # {})

\* The ratio a dimension adds to the sum: request / limit when the limit is
\* finite and the request positive, else nothing.
Term(request, limit) ==
    IF request > 0 /\ ~isinf(limit) /\ limit > 0 THEN Ratio(request, limit) ELSE Zero
RECURSIVE SumTerms(_)
SumTerms(terms) ==
    IF terms = <<>> THEN Zero ELSE Plus(Head(terms), SumTerms(Tail(terms)))
\* The CPUs the job asks for per task and per GPU (0: it does not ask).
CpusOfType(j, type) ==
    LET cpu == get_job_cpu_requirement(j)
    IN  IF cpu.out = "ok" /\ cpu.cpu_type = type THEN cpu.cpu_count ELSE 0
\* The sum of request / limit, each dimension taken once.
SumOnce(p, j) ==
    LET l == p.limits
        r == j.resources
    IN  SumTerms(<<Term(Get(r, "mem_mb", 0), Limit(l, "max_mem_mb")),
                   Term(Get(r, "mem_mb_per_cpu", 0), Limit(l, "max_mem_mb_per_cpu")),
                   Term(Get(r, "runtime", 0), Limit(l, "max_runtime")),
                   Term(Get(r, "nodes", 0), Limit(l, "max_nodes")),
                   Term(Get(r, "tasks", 0), Limit(l, "max_tasks")),
                   Term(Get(r, "tasks_per_node", 0), Limit(l, "max_tasks_per_node")),
                   Term(Get(r, "mpi_tasks", 0), Limit(l, "max_mpi_tasks")),
                   Term(get_effective_threads(j), Limit(l, "max_threads")),
                   Term(CpusOfType(j, "task"), Limit(l, "max_cpus_per_task")),
                   Term(CpusOfType(j, "gpu"), Limit(l, "max_cpus_per_gpu")),
                   Term(parse_gpu_requirements(j).gpu_count, max_gpu(l))>>)

\* C13: the score of every eligible partition is the sum of request / limit
\* taken once over each dimension with a finite limit and a positive
\* request, and is not negative.
C13_ScoreIsSumOnce ==
    Returned =>
        \A i \in Eligible :
            /\ selection.fits[i].score = SumOnce(candidate_partitions[i], job)
            /\ selection.fits[i].score[1] >= 0

\* The partition with max_threads, max_cpus_per_task and max_cpus_per_gpu
\* unbounded.
CpuLimits == {"max_threads", "max_cpus_per_task", "max_cpus_per_gpu"}
WithoutCpuLimits(p) ==
    [p EXCEPT !.limits = [k \in DOMAIN p.limits \ CpuLimits |-> p.limits[k]]]
Within(request, limit) == isinf(limit) \/ request <= limit
\* The CPU check of the one mode that applies to the job.
CpuModeCheck(p, j) ==
    LET l == p.limits
        r == j.resources
        requests_gpu == Get(r, "gpu", 0) # 0 \/ GpuInGres(Get(r, "gres", <<>>))
    IN  IF "cpus_per_task" \in DOMAIN r
        THEN LET n == IF r.cpus_per_task < 1 THEN 1 ELSE r.cpus_per_task IN
             /\ Within(n, Limit(l, "max_cpus_per_task"))
             /\ Within(n, Limit(l, "max_threads"))
        ELSE IF requests_gpu /\ "cpus_per_gpu" \in DOMAIN r
        THEN r.cpus_per_gpu <= 0 \/ Within(r.cpus_per_gpu, Limit(l, "max_cpus_per_gpu"))
        ELSE Within(get_effective_threads(j), Limit(l, "max_threads"))

\* C14: a partition is eligible exactly when it is eligible with its CPU
\* limits unbounded and passes the CPU check of the one mode that applies:
\* cpus_per_task against max_cpus_per_task and max_threads, else (GPU job
\* with cpus_per_gpu) cpus_per_gpu against max_cpus_per_gpu, else the
\* effective threads against max_threads.
C14_CpuModesExclusive ==
    Returned =>
        \A i \in DOMAIN candidate_partitions :
            LET p == candidate_partitions[i] IN
            (i \in Eligible) <=>
                /\ score_job_fit(WithoutCpuLimits(p), job).out = "score"
                /\ CpuModeCheck(p, job)

\* The cluster tag of a partition ("" when it has none).
ClusterOf(p) == Get(p, "partition_cluster", "")
HasCluster(p) == "partition_cluster" \in DOMAIN p

ScoreOf(i) == selection.fits[i].score

\* C16: the partition returned is eligible, no eligible partition has a
\* higher score, and every eligible partition before it in the list has a
\* lower score.
C16_MaxScoreFirstWins ==
    (Returned /\ selection.found) =>
        /\ Chosen \in Eligible
        /\ \A i \in Eligible :
              /\ ~Less(ScoreOf(Chosen), ScoreOf(i))
              /\ i < Chosen => Less(ScoreOf(i), ScoreOf(Chosen))

\* C16 witness: two eligible partitions with different limits have the same
\* positive score and the first is returned.
C16_Witness ==
    /\ Returned
    /\ Eligible = {1, 2}
    /\ candidate_partitions[1].limits # candidate_partitions[2].limits
    /\ ScoreOf(1) = ScoreOf(2)
    /\ Less(Zero, ScoreOf(1))
    /\ selection.partition = candidate_partitions[1].name

\* C17: for a job with a positive GPU count (gpu, or the count of a gres
\* string gpu:<n> or gpu:<model>:<n>) a partition is eligible only if its
\* max_gpu is at least the count and, when the job names a GPU model and
\* available_gpu_models is not None (the empty list included), only if the
\* model is in that list.
C17_GpuEligibility ==
    Returned =>
        LET gpu == parse_gpu_requirements(job) IN
        gpu.gpu_count > 0 =>
            \A i \in Eligible :
                LET l == candidate_partitions[i].limits IN
                /\ max_gpu(l) >= gpu.gpu_count
                /\ (gpu.gpu_model # "" /\ "available_gpu_models" \in DOMAIN l)
                       => gpu.gpu_model \in l.available_gpu_models

\* The constraints the job asks for, and the job without them.
Requested == required_constraints(Get(job.resources, "constraint", <<"">>))
WithoutConstraint(j) ==
    [j EXCEPT !.resources =
        [k \in DOMAIN j.resources \ {"constraint"} |-> j.resources[k]]]

\* C18: when the job asks for constraints and available_constraints of the
\* partition is not None, the partition is eligible only if every requested
\* constraint is in that list; a partition whose available_constraints is
\* None is eligible exactly when it is for the job without its constraints.
C18_ConstraintEligibility ==
    Returned =>
        \A i \in DOMAIN candidate_partitions :
            LET p == candidate_partitions[i] IN
            IF "available_constraints" \in DOMAIN p.limits
            THEN (i \in Eligible /\ Requested # {})
                     => Requested \subseteq p.limits.available_constraints
            ELSE (i \in Eligible)
                     <=> score_job_fit(p, WithoutConstraint(job)).out = "score"

\* The numeric limits of a partition, and by how much one of them is raised.
NumericLimits ==
    {"max_runtime", "max_mem_mb", "max_mem_mb_per_cpu", "max_cpus_per_task",
     "max_threads", "max_nodes", "max_tasks", "max_tasks_per_node", "max_gpu",
     "max_cpus_per_gpu", "max_mpi_tasks"}
Raises == {1, 8}
LimitNow(l, key) == IF key = "max_gpu" THEN max_gpu(l) ELSE Limit(l, key)
Raised(p, key, value) ==
    [p EXCEPT !.limits =
        [k \in DOMAIN p.limits \cup {key} |-> IF k = key THEN value ELSE p.limits[k]]]
RaisedValues(l, key) ==
    IF isinf(LimitNow(l, key)) THEN {}
    ELSE {LimitNow(l, key) + d : d \in Raises} \cup {inf}

\* C19: a partition that is eligible for the job stays eligible when any one
\* of its numeric limits is raised, to a higher finite value or to
\* unbounded, the other limits being kept.
C19_RaisingKeepsEligible ==
    Returned =>
        \A i \in Eligible :
            LET p == candidate_partitions[i] IN
            \A key \in NumericLimits :
                \A value \in RaisedValues(p.limits, key) :
                    score_job_fit(Raised(p, key, value), job).out = "score"

\* C19 witness: an eligible partition whose max_mem_mb the job fills exactly
\* and which sets a second limit.
C19_Witness ==
    /\ Returned
    /\ 1 \in Eligible
    /\ Get(job.resources, "mem_mb", 0) = Limit(candidate_partitions[1].limits, "max_mem_mb")
    /\ \E key \in {"max_threads", "max_cpus_per_task", "available_constraints"} :
           key \in DOMAIN candidate_partitions[1].limits

\* -------------------------------------------------- claims on time strings
\* The seconds a string of a shape stands for, from the fields it has.
ShapeSeconds(shape, d, h, m, s) ==
    LET days == IF shape \in {"D-HH", "D-HH:MM", "D-HH:MM:SS"} THEN d ELSE 0
        minutes == IF shape = "D-HH" THEN 0 ELSE m
        seconds == IF shape \in {"HH:MM:SS", "D-HH:MM:SS"} THEN s ELSE 0
    IN  ((days * 1440 + h * 60 + minutes) * 60) + seconds

\* C20: a string of one of the shapes HH:MM, HH:MM:SS, D-HH, D-HH:MM and
\* D-HH:MM:SS, for every day count D >= 0, parses to
\* days*1440 + hours*60 + minutes + seconds/60 rounded half up to whole
\* minutes; two fields with a colon are hours:minutes.
C20_ColonDashMinutes ==
    parsed.pc # "idle" =>
        \A shape \in Shapes, d \in 0..MaxDays, h \in Hours, m \in Minutes, s \in Seconds :
            time_value = Shaped(shape, d, h, m, s) =>
                /\ parsed.pc = "returned"
                /\ parsed.minutes = (ShapeSeconds(shape, d, h, m, s) + 30) \div 60

\* The value of a written part in tenths, and the minutes a unit has in
\* six-hundredths, so that a part is Tenths * UnitSixtieths / 600 minutes.
Tenths(v) ==
    CASE v = <<"2">> -> 20
      [] v = <<"3", "0">> -> 300
      [] v = <<"1", ".", "5">> -> 15
UnitSixtieths(u) ==
    CASE u = "d" -> 86400 [] u = "h" -> 3600 [] u = "m" -> 60 [] u = "s" -> 1
RECURSIVE SumOfParts(_)
SumOfParts(ps) ==
    IF ps = <<>> THEN 0
    ELSE Tenths(Head(ps)[1]) * UnitSixtieths(Head(ps)[2]) + SumOfParts(Tail(ps))
\* Unit notation with the minutes it stands for, rounded half up.
UnitTable == {<<Written(ps), (SumOfParts(ps) + 300) \div 600>> : ps \in UnitPartSeqs}
\* The values the specification lists, and bare numbers.
CanonicalTable ==
    {<<<<"1", "2", "0">>, 120>>, <<<<"2", "h">>, 120>>, <<<<"1", "d">>, 1440>>,
     <<<<"2", "d", "1", "2", "h", "3", "0", "m">>, 3630>>,
     <<<<"1", "-", "0", ":", "3", "0">>, 1470>>,
     <<<<"6", "d">>, 8640>>, <<<<"6", "-", "0">>, 8640>>, <<<<"8", "6", "4", "0">>, 8640>>,
     <<<<"0">>, 0>>, <<<<"6", "0">>, 60>>, <<<<" ", "9", "0", " ">>, 90>>,
     <<<<"1", "2", "0", ".", "5">>, 121>>, <<<<"1", "2", "0", ".", "4">>, 120>>,
     <<<<"1", ".", "5">>, 2>>, <<<<"1", ".", "5", "h">>, 90>>,
     <<<<"0", ".", "5", "d">>, 720>>, <<<<"6", "h", "3", "0", "s">>, 361>>,
     <<<<"9", "0", "s">>, 2>>}
\* An int or a float with the whole minutes nearest to it.
NumberTable ==
    {<<<<120, 1>>, 120>>, <<<<0, 1>>, 0>>, <<<<1440, 1>>, 1440>>, <<<<8640, 1>>, 8640>>,
     <<<<241, 2>>, 121>>, <<<<1, 2>>, 1>>, <<<<602, 5>>, 120>>}

\* C21: time parsing yields the canonical minute values: a bare number is
\* its value in minutes (a fraction rounded half up), unit notation in any
\* combination of d, h, m and s, fractions allowed, is the sum of its parts,
\* "120" and "2h" are 120, "1d" is 1440, "2d12h30m" is 3630, "1-0:30" is 1470,
\* and "6d", "6-0" and the number 8640 all give 8640.
C21_CanonicalMinutes ==
    parsed.pc # "idle" =>
        /\ \A e \in UnitTable \cup CanonicalTable :
               (~time_number.given /\ time_value = e[1]) =>
                   parsed = [pc |-> "returned", minutes |-> e[2]]
        /\ \A e \in NumberTable :
               (time_number.given /\ time_number.value = e[1]) =>
                   parsed = [pc |-> "returned", minutes |-> e[2]]

\* C21 witness: a second and a fractional hour in one string were summed.
C21_Witness ==
    /\ parsed.pc = "returned"
    /\ ~time_number.given
    /\ time_value = <<"3", "0", "s", "1", ".", "5", "h">>
    /\ parsed.minutes = 91

\* A string that is a number, unit notation or a colon/dash shape from its
\* first character to its last, blanks around it and between parts aside.
IsBareNumber(s) == float(s).ok
RECURSIVE UnitsFrom(_, _)
UnitsFrom(s, i) ==
    \/ i > Len(s)
    \/ /\ MatchAt(s, i).end # 0
       /\ UnitsFrom(s, BlanksEnd(s, MatchAt(s, i).end + 1))
IsUnitNotation(s) == s # <<>> /\ UnitsFrom(s, 1)
IsColonDash(s) ==
    LET dashed == split(s, "-")
        fields == split(dashed[Len(dashed)], ":")
    IN  /\ Len(dashed) <= 2
        /\ Len(dashed) = 2 => IsDigits(dashed[1])
        /\ Len(fields) <= 3
        /\ Len(dashed) = 1 => Len(fields) >= 2
        /\ \A i \in DOMAIN fields : IsDigits(fields[i])
WellFormed(s) ==
    LET t == lower(strip(s))
    IN  IsBareNumber(t) \/ IsUnitNotation(t) \/ IsColonDash(t)

\* C22: parse_time_to_minutes raises the invalid-time-format error for every
\* string that is not, in its entirety, a bare number, a unit-notation
\* string or a colon/dash string of the listed shapes; no such string yields
\* a minute value.
C22_MalformedRaises ==
    (parsed.pc # "idle" /\ ~time_number.given /\ ~WellFormed(time_value)) =>
        parsed.pc = "raised"

\* ------------------------------------------------- claims on cancellation
\* C23: a cancellation request issues at most one external cancel call:
\* exactly one call carrying all the active external job ids when the active
\* list is not empty, and no call when it is empty.
C23_OneBulkCancel ==
    cancelled.pc # "idle" =>
        IF cancel_active_jobs = <<>> THEN scancel = <<>>
        ELSE /\ Len(scancel) = 1
             /\ {scancel[1].jobids[i] : i \in DOMAIN scancel[1].jobids}
                    = {cancel_active_jobs[i].external_jobid : i \in DOMAIN cancel_active_jobs}
             /\ Len(scancel[1].jobids) = Len(cancel_active_jobs)

\* C23 witness: three active jobs were cancelled with one call.
C23_Witness ==
    /\ cancelled.pc = "returned"
    /\ Len(cancel_active_jobs) = 3
    /\ Len(scancel) = 1
    /\ scancel[1].outcome = "ok"

\* C24: a timeout of the cancel call is logged as a warning and the call
\* returns normally; a WorkflowError is raised when, and only when, the
\* cancel command exits non-zero.
C24_TimeoutLoggedOnly ==
    cancelled.pc # "idle" =>
        /\ (scancel # <<>> /\ scancel[1].outcome = "TimeoutExpired") =>
               /\ cancelled.pc = "returned"
               /\ cancelled.warnings # <<>>
        /\ (cancelled.pc = "raised" /\ cancelled.error = "WorkflowError") <=>
               (scancel # <<>> /\ scancel[1].outcome = "CalledProcessError")

\* C24 witness: the cancel call timed out and cancel_jobs returned.
C24_Witness ==
    /\ cancelled.pc = "returned"
    /\ scancel # <<>>
    /\ scancel[1].outcome = "TimeoutExpired"
    /\ cancelled.warnings = <<"Unable to cancel jobs within a minute.">>

\* ------------------------------------------------ claims on the attempts
\* The cycle is over a non-empty list and its for loop has been left.
LoopLeft == pc \in {"classify", "done"} /\ cycle_jobs # {}
\* A step that is one iteration of the for loop.
IsAttempt == pc = "query" /\ attempt' # attempt
\* The loop is left before its last iteration.
StopsEarly == pc' = "classify" /\ attempt' < status_attempts

GpuTwice ==
    /\ Get(job.resources, "gpu", 0) # 0
    /\ GpuInGres(Get(job.resources, "gres", <<>>))

\* C26: a job that specifies GPUs both through gpu and through a gres string
\* naming gpu is rejected with an input error by partition selection,
\* whatever the list of partitions holds: it is not scored, and selection
\* returns neither a partition nor None.
C26_GpuTwiceRejected ==
    (selection.pc # "idle" /\ GpuTwice) =>
        /\ selection.pc = "raised"
        /\ selection.error = "WorkflowError"
        /\ \A i \in DOMAIN selection.fits : selection.fits[i].out # "score"

\* The requests of the job with the maxima of a partition they are held
\* against, dimension by dimension; a job whose CPU or GPU request cannot
\* be read has none in that dimension.
NumericKeys ==
    {"mem_mb", "mem_mb_per_cpu", "runtime", "nodes", "tasks", "tasks_per_node",
     "mpi_tasks"}
Dimensions(l) ==
    LET cpu == get_job_cpu_requirement(job)
        gpu == parse_gpu_requirements(job)
    IN  {<<Get(job.resources, key, 0), Limit(l, "max_" \o key)>> : key \in NumericKeys}
        \cup {<<get_effective_threads(job), Limit(l, "max_threads")>>}
        \cup (IF cpu.out = "ok" /\ cpu.cpu_type = "task"
              THEN {<<cpu.cpu_count, Limit(l, "max_threads")>>,
                    <<cpu.cpu_count, Limit(l, "max_cpus_per_task")>>}
              ELSE {})
        \cup (IF cpu.out = "ok" /\ cpu.cpu_type = "gpu"
              THEN {<<cpu.cpu_count, Limit(l, "max_cpus_per_gpu")>>}
              ELSE {})
        \cup (IF cpu.out = "ok" /\ gpu.out = "ok"
              THEN {<<gpu.gpu_count, max_gpu(l)>>}
              ELSE {})
\* A positive request meets a finite maximum that is zero or negative.
NoRoom(l) == \E d \in Dimensions(l) : d[1] > 0 /\ ~isinf(d[2]) /\ d[2] <= 0

\* C30: scoring never divides by a zero or negative limit: in every
\* dimension a finite maximum <= 0 with a positive request makes the
\* partition ineligible before request / maximum is computed, so every
\* ratio added to a score has a positive denominator and lies in (0, 1].
C30_PositiveDenominators ==
    selection.pc # "idle" =>
        \A i \in DOMAIN selection.fits :
            LET fit == selection.fits[i] IN
            /\ fit.out # "ZeroDivisionError"
            /\ \A k \in DOMAIN fit.terms :
                   /\ fit.terms[k][2] > 0
                   /\ 0 < fit.terms[k][1]
                   /\ fit.terms[k][1] <= fit.terms[k][2]
            /\ NoRoom(candidate_partitions[i].limits) => fit.out # "score"

\* C30 witness: the job asks for memory, the first partition has room for
\* none and is left out, the second was divided by.
C30_Witness ==
    /\ Returned
    /\ Len(candidate_partitions) = 2
    /\ Get(job.resources, "mem_mb", 0) > 0
    /\ Limit(candidate_partitions[1].limits, "max_mem_mb") = 0
    /\ selection.fits[1] = [out |-> "None", score |-> Zero, terms |-> <<>>]
    /\ selection.fits[2].out = "score"
    /\ selection.fits[2].terms # <<>>

\* The first word of a status field, "" for a blank field.
FirstWord(field) ==
    IF \A k \in DOMAIN field : field[k] = " " THEN ""
    ELSE field[CHOOSE k \in DOMAIN field :
                   field[k] # " " /\ \A m \in 1..(k - 1) : field[m] = " "]
\* The last row of the output that gives job id a status field.
LastRow(id) ==
    CHOOSE k \in DOMAIN command_res :
        /\ command_res[k].job_id = id
        /\ "state" \in DOMAIN command_res[k]
        /\ \A m \in (k + 1)..Len(command_res) :
               command_res[m].job_id # id \/ "state" \notin DOMAIN command_res[m]
ReportedFailed(id, res) ==
    LET st == ClassifyAll(ClassifyStart({id}, FALSE), <<id>>, res)
    IN  st.errors # <<>> /\ id \notin st.yielded

\* C27: in a snapshot parsed from the query output, by Executor.job_stati
\* or by query_job_status, the status of a job id is the first
\* whitespace-delimited token of its status field, and a job whose field
\* starts with CANCELLED is classified as failed.
C27_FirstTokenOnly ==
    queried.pc = "returned" =>
        \A id \in DOMAIN queried.res :
            LET field == command_res[LastRow(id)].state IN
            /\ queried.res[id] = FirstWord(field)
            /\ FirstWord(field) = "CANCELLED" => ReportedFailed(id, queried.res)

Decided == status_command_name # ""
BelowThreshold == ~min_job_age.given \/ min_job_age.value < 3 * initial_interval

\* C28: the command chosen for a cycle is sacct only when sacct is
\* available; a configured sacct is kept exactly when sacct is available, a
\* configured squeue is replaced by sacct exactly when sacct is available
\* and MinJobAge is unknown or below 3 times the initial interval; and the
\* snapshot parsed from a given output, hence its classification, is the
\* same whichever command produced the output.
C28_ChosenCommand ==
    Decided =>
        /\ status_command_name \in {"sacct", "squeue"}
        /\ status_command_name = "sacct" => sacct_available
        /\ configured = "sacct" =>
               (status_command_name = "sacct" <=> sacct_available)
        /\ configured = "squeue" =>
               (status_command_name = "sacct" <=> (sacct_available /\ BelowThreshold))
        /\ queried.pc # "idle" =>
               /\ queried.via = status_command_name
               /\ \A c \in {"sacct", "squeue"} :
                      LET other == job_stati_rows(c, command_res, <<>>) IN
                      /\ other.pc = queried.pc
                      /\ other.res = queried.res
                      /\ ClassifyAll(ClassifyStart({1}, FALSE), <<1>>, other.res)
                             = ClassifyAll(ClassifyStart({1}, FALSE), <<1>>, queried.res)
C28_Witness ==
    /\ configured = "squeue"
    /\ sacct_available
    /\ min_job_age = [given |-> TRUE, value |-> 479]
    /\ initial_interval = 160
    /\ status_command_name = "sacct"
    /\ queried.pc = "returned"
    /\ queried.res = (1 :> "CANCELLED")

ReportedJobs == success \cup DOMAIN errors
IsClassification == pc = "classify" /\ pc' = "done"

\* C29: whenever the classification reports a job (COMPLETED, UNKNOWN or a
\* status of the fail set), the job's external id is in the ever-seen set
\* the classification starts from, so that the removal never raises and the
\* classification never aborts part-way through the active list.
C29_ReportedSeen ==
    /\ [](~aborted)
    /\ [][IsClassification =>
              /\ ReportedJobs' \subseteq active_jobs_seen_by_sacct
              /\ active_jobs_seen_by_sacct' = active_jobs_seen_by_sacct \ ReportedJobs'
              /\ status_of_jobs.ok => yielded' \cup ReportedJobs' = cycle_jobs]_vars
C29_Witness ==
    /\ pc = "done"
    /\ attempt >= 2
    /\ ~aborted
    /\ \E j \in success : StatusOf(j) = "UNKNOWN"
    /\ \E j \in DOMAIN errors : StatusOf(j) = "CANCELLED"

====
